---- MODULE Spec2Model ----
(***************************************************************************)
(* Classification and correlation engine of the checkout debugger:         *)
(* CheckoutCallAnalyzer (src/checkout-call-analyzer.js) and the            *)
(* correlation engines (src/unnamed/part_001, src/analyzer-files/          *)
(* salesforce-api.js).                                                     *)
(***************************************************************************)
EXTENDS Integers, Sequences, FiniteSets, TLC

VARIABLES
    callTypes,      \* CheckoutCallAnalyzer.callTypes: the Map, as the sequence of its values in insertion order
    registrations,  \* the number of addCallType calls made after the constructor
    enhancedCall,   \* what the last operation returned if it was analyzeCall, NoCall otherwise
    correlationRules, \* CorrelationEngine.correlationRules: the Map, as the sequence of its values
    networkCalls,   \* the monitor's networkCalls, handed to the engines
    salesforceLogs, \* the monitor's salesforceLogs, handed to the engines
    lastCorrelation, \* what the last operation scored and returned if it was a correlation
    extraction,     \* the last extractCheckoutId: the extractor, the call and what it returned
    logLines,       \* the lines of the log body fetched so far
    parsedLog,      \* what the last operation returned if it parsed the log body, and the parser
    sessionManager, \* SessionManager: sessions, currentSessionId, the storage and the ids given out
    now,            \* Date.now()
    heldSession,    \* the session object the last SessionManager call handed to its caller
    monitor,        \* SFCCMonitor: its session and checkout fields and its pending checks
    client          \* the Salesforce client: connection fields, syncInProgress, calls in flight

analyzerVars == <<callTypes, registrations, enhancedCall>>

correlationVars == <<correlationRules, networkCalls, salesforceLogs, lastCorrelation>>

identifierVars == <<extraction>>

parserVars == <<logLines, parsedLog>>

sessionVars == <<sessionManager, now, heldSession>>

monitorVars == <<monitor>>

clientVars == <<client>>

vars == <<analyzerVars, correlationVars, identifierVars, parserVars,
          sessionVars, monitorVars, clientVars>>

-----------------------------------------------------------------------------
(* JavaScript strings: String.prototype.includes, toLowerCase, toUpperCase *)

LowerMap ==
    ("A" :> "a") @@ ("B" :> "b") @@ ("C" :> "c") @@ ("D" :> "d") @@ ("E" :> "e") @@
    ("F" :> "f") @@ ("G" :> "g") @@ ("H" :> "h") @@ ("I" :> "i") @@ ("J" :> "j") @@
    ("K" :> "k") @@ ("L" :> "l") @@ ("M" :> "m") @@ ("N" :> "n") @@ ("O" :> "o") @@
    ("P" :> "p") @@ ("Q" :> "q") @@ ("R" :> "r") @@ ("S" :> "s") @@ ("T" :> "t") @@
    ("U" :> "u") @@ ("V" :> "v") @@ ("W" :> "w") @@ ("X" :> "x") @@ ("Y" :> "y") @@
    ("Z" :> "z")

UpperMap ==
    ("a" :> "A") @@ ("b" :> "B") @@ ("c" :> "C") @@ ("d" :> "D") @@ ("e" :> "E") @@
    ("f" :> "F") @@ ("g" :> "G") @@ ("h" :> "H") @@ ("i" :> "I") @@ ("j" :> "J") @@
    ("k" :> "K") @@ ("l" :> "L") @@ ("m" :> "M") @@ ("n" :> "N") @@ ("o" :> "O") @@
    ("p" :> "P") @@ ("q" :> "Q") @@ ("r" :> "R") @@ ("s" :> "S") @@ ("t" :> "T") @@
    ("u" :> "U") @@ ("v" :> "V") @@ ("w" :> "W") @@ ("x" :> "X") @@ ("y" :> "Y") @@
    ("z" :> "Z")

CharAt(s, i) == SubSeq(s, i, i)

UpperLetters == DOMAIN LowerMap
LowerLetters == DOMAIN UpperMap

\* the characters lo..hi of s in lower case, by halves
RECURSIVE LowerRange(_, _, _)
LowerRange(s, lo, hi) ==
    IF lo > hi THEN ""
    ELSE IF lo = hi
         THEN (IF CharAt(s, lo) \in UpperLetters THEN LowerMap[CharAt(s, lo)]
               ELSE CharAt(s, lo))
         ELSE LowerRange(s, lo, (lo + hi) \div 2)
                 \o LowerRange(s, ((lo + hi) \div 2) + 1, hi)

RECURSIVE UpperRange(_, _, _)
UpperRange(s, lo, hi) ==
    IF lo > hi THEN ""
    ELSE IF lo = hi
         THEN (IF CharAt(s, lo) \in LowerLetters THEN UpperMap[CharAt(s, lo)]
               ELSE CharAt(s, lo))
         ELSE UpperRange(s, lo, (lo + hi) \div 2)
                 \o UpperRange(s, ((lo + hi) \div 2) + 1, hi)

toLowerCase(s) == LowerRange(s, 1, Len(s))

toUpperCase(s) == UpperRange(s, 1, Len(s))

\* s.includes(p)
includes(s, p) ==
    \/ p = ""
    \/ \E i \in 1..(Len(s) - Len(p) + 1) : SubSeq(s, i, i + Len(p) - 1) = p

-----------------------------------------------------------------------------
(* JavaScript values: request and response bodies.                         *)
(* A string body is held as JsonText(v), a string that JSON.parse turns    *)
(* into v, or as Str(s), a string that JSON.parse rejects.                 *)

Undefined == [t |-> "undefined"]
Null == [t |-> "null"]
Str(s) == [t |-> "str", v |-> s]
Num(n) == [t |-> "num", v |-> n]
Bool(b) == [t |-> "bool", v |-> b]
Obj(f) == [t |-> "obj", v |-> f]
Arr(q) == [t |-> "arr", v |-> q]
JsonText(x) == [t |-> "json", v |-> x]
EmptyObj == Obj(<<>>)

\* ToBoolean
Truthy(x) ==
    CASE x.t = "undefined" -> FALSE
      [] x.t = "null" -> FALSE
      [] x.t = "str" -> x.v # ""
      [] x.t = "num" -> x.v # 0
      [] x.t = "bool" -> x.v
      [] OTHER -> TRUE

\* typeof x === "object"
IsObjectType(x) == x.t \in {"obj", "arr", "null"}

\* x?.key
Get(x, key) ==
    IF x.t = "obj" /\ key \in DOMAIN x.v THEN x.v[key] ELSE Undefined

\* x?.[i] on an array (0-based, as in the source)
GetIndex(x, i) ==
    IF x.t = "arr" /\ (i + 1) \in DOMAIN x.v THEN x.v[i + 1] ELSE Undefined

\* a || b
OrElse(a, b) == IF Truthy(a) THEN a ELSE b

\* hasOwnProperty on an object or an array
HasOwn(x, key) ==
    \/ x.t = "obj" /\ key \in DOMAIN x.v
    \/ x.t = "arr" /\ key = "length"

RECURSIVE hasNestedKey(_, _)
hasNestedKey(obj, key) ==
    IF ~(obj.t \in {"obj", "arr"}) THEN FALSE
    ELSE \/ HasOwn(obj, key)
         \/ \E p \in DOMAIN obj.v :
                IsObjectType(obj.v[p]) /\ hasNestedKey(obj.v[p], key)

\* parseRequestBody: null for a missing body or a string that is not JSON
parseRequestBody(requestBody) ==
    IF ~Truthy(requestBody) THEN Null
    ELSE IF requestBody.t = "json" THEN requestBody.v
    ELSE IF requestBody.t = "str" THEN Null
    ELSE requestBody

-----------------------------------------------------------------------------
(* CheckoutCallAnalyzer: payload helpers                                   *)

hasPayloadKeys(call, keys) ==
    LET payload == parseRequestBody(call.requestBody)
    IN  IF ~Truthy(payload) THEN FALSE
        ELSE \E key \in keys : hasNestedKey(payload, key)

hasResponseKeys(call, keys) ==
    IF ~Truthy(call.response) THEN FALSE
    ELSE \E key \in keys : hasNestedKey(call.response, key)

hasUrlPath(call, path) == includes(toLowerCase(call.url), toLowerCase(path))

hasAddressInPayload(call) ==
    hasPayloadKeys(call, {"street", "city", "state", "postalCode", "country", "address1", "address2"})

hasTaxInResponse(call) ==
    hasResponseKeys(call, {"totalTaxAmount", "taxes", "taxBreakdown"})

hasInventoryInResponse(call) ==
    hasResponseKeys(call, {"inventory", "stockStatus", "cartItems"})

hasOrderInResponse(call) ==
    hasResponseKeys(call, {"orderId", "orderNumber", "orderStatus"})

-----------------------------------------------------------------------------
(* Rules.  The functions a rule carries (payload matchers, extractors,     *)
(* validators) are held as descriptors; EvalMatcher, EvalExtractor and     *)
(* EvalValidator run them.                                                 *)

Matcher(kind, keys) == [kind |-> kind, keys |-> keys]
Extractor(name, kind, paths) == [name |-> name, kind |-> kind, paths |-> paths]
Validator(name, kind, keys) == [name |-> name, kind |-> kind, keys |-> keys]

AllMethods == <<"GET", "POST", "PUT", "PATCH", "DELETE">>

\* config.field || default, for a field the config may leave out
FieldOr(config, field, truthy, default) ==
    IF field \in config.given /\ truthy THEN config[field] ELSE default

\* the entry addCallType stores
CallTypeEntry(name, config) ==
    [name |-> name,
     urlPatterns |-> FieldOr(config, "urlPatterns", TRUE, <<>>),
     methods |-> FieldOr(config, "methods", TRUE, AllMethods),
     stage |-> FieldOr(config, "stage", config.stage # "", name),
     extractors |-> FieldOr(config, "extractors", TRUE, <<>>),
     validators |-> FieldOr(config, "validators", TRUE, <<>>),
     payloadMatchers |-> FieldOr(config, "payloadMatchers", TRUE, <<>>),
     priority |-> FieldOr(config, "priority", config.priority # 0, 0)]

IndexOfName(types, name) ==
    IF \E i \in 1..Len(types) : types[i].name = name
    THEN CHOOSE i \in 1..Len(types) : types[i].name = name
    ELSE 0

\* Map.prototype.set: a new key goes last, an existing key keeps its place
MapSet(types, name, entry) ==
    IF IndexOfName(types, name) = 0 THEN Append(types, entry)
    ELSE [types EXCEPT ![IndexOfName(types, name)] = entry]

\* the fields a configuration can give
RuleFields ==
    {"urlPatterns", "methods", "stage", "payloadMatchers", "extractors", "validators", "priority"}

\* an addCallType that turns away a configuration that leaves a field out
addCallTypeComplete(types, name, config) ==
    IF config.given = RuleFields THEN MapSet(types, name, CallTypeEntry(name, config))
    ELSE types

addCallType(types, name, config) == MapSet(types, name, CallTypeEntry(name, config))

Config(urlPatterns, methods, stage, payloadMatchers, extractors, validators, priority) ==
    [given |-> RuleFields,
     urlPatterns |-> urlPatterns, methods |-> methods, stage |-> stage,
     payloadMatchers |-> payloadMatchers, extractors |-> extractors,
     validators |-> validators, priority |-> priority]

PaymentConfig ==
    Config(<<"/payments", "/payment">>, <<"POST", "PUT", "PATCH">>, "payment",
           <<Matcher("hasPayloadKeys", {"paymentToken", "paymentMethodId", "creditCard", "paymentInstrument"}),
             Matcher("hasResponseKeys", {"paymentMethods", "paymentResult", "paymentStatus"})>>,
           <<Extractor("paymentToken", "paymentToken", <<>>),
             Extractor("paymentErrors", "response", <<<<"errors">>>>),
             Extractor("salesforceResultCode", "response", <<<<"salesforceResultCode">>>>),
             Extractor("paymentMethodId", "response", <<<<"paymentMethodId">>>>)>>,
           <<Validator("isSuccessful", "okNoErrors", <<>>)>>,
           10)

DeliveryMethodConfig ==
    Config(<<"/delivery-methods", "/delivery-groups", "/shipping-methods", "/checkouts/">>,
           <<"GET", "POST", "PUT", "PATCH">>, "delivery",
           <<Matcher("hasPayloadKeys", {"deliveryMethodId", "shippingMethodId", "deliveryGroupId"}),
             Matcher("hasResponseKeys", {"deliveryGroups", "availableDeliveryMethods", "selectedDeliveryMethod"}),
             Matcher("checkoutsPayloadKeys", {"deliveryMethodId"})>>,
           <<Extractor("deliveryMethodId", "request", <<<<"deliveryMethodId">>, <<"shippingMethodId">>>>),
             Extractor("selectedMethod", "response",
                       <<<<"deliveryGroups", "items", "#0", "selectedDeliveryMethod">>>>),
             Extractor("availableMethods", "response",
                       <<<<"deliveryGroups", "items", "#0", "availableDeliveryMethods">>,
                         <<"deliveryMethods">>>>)>>,
           <<Validator("isSuccessful", "okAndAny", <<"deliveryMethods", "deliveryGroups">>)>>,
           15)

AddressConfig ==
    Config(<<"/shipping-address", "/billing-address", "/delivery-address", "/addresses", "/checkouts/">>,
           <<"GET", "POST", "PUT", "PATCH">>, "address",
           <<Matcher("hasPayloadKeys", {"address", "deliveryAddress", "billingAddress", "shippingAddress"}),
             Matcher("hasPayloadKeys", {"street", "city", "state", "postalCode", "country"}),
             Matcher("hasResponseKeys", {"deliveryAddress", "billingAddress", "addresses"}),
             Matcher("checkoutsAddressInPayload", {})>>,
           <<Extractor("addressType", "addressType", <<>>),
             Extractor("addressDetails", "response",
                       <<<<"address">>, <<"deliveryAddress">>, <<"billingAddress">>>>)>>,
           <<Validator("isSuccessful", "okNoErrors", <<>>)>>,
           12)

TaxesConfig ==
    Config(<<"/taxes", "/tax-calculation", "/calculate-tax", "/checkouts/">>,
           <<"GET", "POST">>, "taxes",
           <<Matcher("hasPayloadKeys", {"calculateTax", "taxCalculation", "taxAmount"}),
             Matcher("hasResponseKeys", {"taxes", "taxBreakdown", "totalTaxAmount"}),
             Matcher("checkoutsTaxInResponse", {})>>,
           <<Extractor("taxAmount", "response", <<<<"cartSummary", "totalTaxAmount">>, <<"totalTax">>>>),
             Extractor("taxDetails", "response", <<<<"taxes">>, <<"taxBreakdown">>>>)>>,
           <<Validator("isSuccessful", "okAndAny", <<"taxes">>)>>,
           8)

InventoryConfig ==
    Config(<<"/inventory", "/cart-items", "/stock", "/availability", "/checkouts/">>,
           <<"GET", "POST", "PUT">>, "inventory",
           <<Matcher("hasPayloadKeys", {"productId", "sku", "quantity", "inventoryId"}),
             Matcher("hasResponseKeys", {"inventory", "stockStatus", "availableQuantity", "cartItems"}),
             Matcher("checkoutsInventoryInResponse", {})>>,
           <<Extractor("productCount", "response", <<<<"totalProductCount">>>>),
             Extractor("inventoryLevel", "response", <<<<"inventory">>>>),
             Extractor("stockStatus", "response", <<<<"stockStatus">>>>)>>,
           <<Validator("isSuccessful", "ok", <<>>)>>,
           8)

CheckoutConfig ==
    Config(<<"/checkouts/", "/checkout-status", "/cart-summary">>,
           <<"GET", "POST", "PUT">>, "checkout",
           <<Matcher("hasPayloadKeys", {"checkoutId", "cartId", "checkoutStep"}),
             Matcher("hasResponseKeys", {"checkoutStatus", "cartSummary", "checkoutProgress"}),
             Matcher("checkoutsNotSpecific", {})>>,
           <<Extractor("checkoutId", "checkoutId", <<>>),
             Extractor("checkoutStatus", "response", <<<<"status">>, <<"checkoutStatus">>>>),
             Extractor("cartSummary", "response", <<<<"cartSummary">>>>)>>,
           <<Validator("isSuccessful", "ok", <<>>)>>,
           5)

OrderPlacementConfig ==
    Config(<<"/place-order", "/submit-order", "/finalize", "/checkouts/">>,
           <<"POST", "PUT">>, "order",
           <<Matcher("hasPayloadKeys", {"placeOrder", "submitOrder", "finalizeOrder"}),
             Matcher("hasResponseKeys", {"orderId", "orderNumber", "orderStatus", "orderPlaced"}),
             Matcher("checkoutsPostOrderInResponse", {})>>,
           <<Extractor("orderId", "response", <<<<"orderId">>, <<"id">>>>),
             Extractor("orderNumber", "response", <<<<"orderNumber">>>>),
             Extractor("orderStatus", "response", <<<<"status">>, <<"orderStatus">>>>)>>,
           <<Validator("isSuccessful", "okAndAny", <<"orderId", "orderNumber">>)>>,
           20)

ActiveCheckoutConfig ==
    Config(<<"/active">>, <<"PATCH", "PUT">>, "checkout-update",
           <<Matcher("activeUrl", {})>>,
           <<Extractor("updateType", "updateType", <<>>),
             Extractor("deliveryAddressId", "request", <<<<"deliveryAddress", "id">>>>),
             Extractor("desiredDeliveryDate", "request", <<<<"desiredDeliveryDate">>>>),
             Extractor("deliveryMethodId", "request", <<<<"deliveryMethodId">>>>),
             Extractor("shippingInstructions", "request", <<<<"shippingInstructions">>>>),
             Extractor("contactInfo", "request", <<<<"contactInfo">>>>)>>,
           <<Validator("isSuccessful", "okNoErrors", <<>>)>>,
           30)

\* the registry the constructor builds
initializeDefaultTypes ==
    LET t1 == addCallType(<<>>, "payment", PaymentConfig)
        t2 == addCallType(t1, "deliveryMethod", DeliveryMethodConfig)
        t3 == addCallType(t2, "address", AddressConfig)
        t4 == addCallType(t3, "taxes", TaxesConfig)
        t5 == addCallType(t4, "inventory", InventoryConfig)
        t6 == addCallType(t5, "checkout", CheckoutConfig)
        t7 == addCallType(t6, "orderPlacement", OrderPlacementConfig)
    IN  addCallType(t7, "activeCheckout", ActiveCheckoutConfig)

-----------------------------------------------------------------------------
(* CheckoutCallAnalyzer.matchesCallType                                    *)

SpecificTypes ==
    <<"payment", "deliveryMethod", "address", "taxes", "inventory", "orderPlacement", "activeCheckout">>

RECURSIVE matchesCallType(_, _, _)

matchesSpecificType(types, call) ==
    \E k \in 1..Len(SpecificTypes) :
        /\ IndexOfName(types, SpecificTypes[k]) # 0
        /\ matchesCallType(types, call, types[IndexOfName(types, SpecificTypes[k])])

\* one payload matcher applied to the call; a matcher that throws counts as false
EvalMatcher(types, m, call) ==
    CASE m.kind = "hasPayloadKeys" -> hasPayloadKeys(call, m.keys)
      [] m.kind = "hasResponseKeys" -> hasResponseKeys(call, m.keys)
      [] m.kind = "checkoutsPayloadKeys" ->
            hasUrlPath(call, "checkouts") /\ hasPayloadKeys(call, m.keys)
      [] m.kind = "checkoutsAddressInPayload" ->
            hasUrlPath(call, "checkouts") /\ hasAddressInPayload(call)
      [] m.kind = "checkoutsTaxInResponse" ->
            hasUrlPath(call, "checkouts") /\ hasTaxInResponse(call)
      [] m.kind = "checkoutsInventoryInResponse" ->
            hasUrlPath(call, "checkouts") /\ hasInventoryInResponse(call)
      [] m.kind = "checkoutsNotSpecific" ->
            hasUrlPath(call, "checkouts") /\ ~matchesSpecificType(types, call)
      [] m.kind = "checkoutsPostOrderInResponse" ->
            hasUrlPath(call, "checkouts") /\ call.method = "POST" /\ hasOrderInResponse(call)
      [] m.kind = "activeUrl" -> hasUrlPath(call, "/active")
      [] m.kind = "always" -> TRUE
      [] m.kind = "never" -> FALSE
      [] m.kind = "throws" -> FALSE

urlMatchesOf(callData, typeConfig) ==
    LET url == toLowerCase(callData.url)
    IN  \E i \in 1..Len(typeConfig.urlPatterns) :
            includes(url, toLowerCase(typeConfig.urlPatterns[i]))

methodMatchesOf(callData, typeConfig) ==
    LET method == toUpperCase(callData.method)
    IN  \E i \in 1..Len(typeConfig.methods) : typeConfig.methods[i] = method

payloadMatchesOf(types, callData, typeConfig) ==
    IF Truthy(Arr(typeConfig.payloadMatchers)) /\ Len(typeConfig.payloadMatchers) > 0
    THEN \E i \in 1..Len(typeConfig.payloadMatchers) :
            EvalMatcher(types, typeConfig.payloadMatchers[i], callData)
    ELSE TRUE

matchesCallType(types, callData, typeConfig) ==
    LET urlMatches == urlMatchesOf(callData, typeConfig)
        methodMatches == methodMatchesOf(callData, typeConfig)
        payloadMatches == payloadMatchesOf(types, callData, typeConfig)
    IN  \/ (urlMatches /\ methodMatches /\ payloadMatches)
        \/ (Truthy(Arr(typeConfig.payloadMatchers)) /\ payloadMatches /\ methodMatches)

-----------------------------------------------------------------------------
(* Extractors and validators                                               *)

Digits == {"0", "1", "2", "3", "4", "5", "6", "7", "8", "9"}
AlphaNumeric == UpperLetters \cup LowerLetters \cup Digits

\* the longest run of characters of s from position j on that lie in (inSet = TRUE)
\* or outside (inSet = FALSE) the set chars
RECURSIVE RunLength(_, _, _, _)
RunLength(s, j, chars, inSet) ==
    IF j > Len(s) \/ ((CharAt(s, j) \in chars) # inSet) THEN 0
    ELSE 1 + RunLength(s, j + 1, chars, inSet)

\* url.match(/checkouts\/([^/?]+)/): the capture of the leftmost match, "" when none
MatchCheckoutsUrl(url) ==
    LET m == "checkouts/"
        starts == {i \in 1..Len(url) :
                      /\ i + Len(m) <= Len(url)
                      /\ SubSeq(url, i, i + Len(m) - 1) = m
                      /\ CharAt(url, i + Len(m)) \notin {"/", "?"}}
    IN  IF starts = {} THEN ""
        ELSE LET i == CHOOSE k \in starts : \A k2 \in starts : k <= k2
                 from == i + Len(m)
             IN  SubSeq(url, from, from + RunLength(url, from, {"/", "?"}, FALSE) - 1)

MinIdLen == 15
MaxIdLen == 18

\* requestBody.match(/(?:checkoutId)["':\s]*([a-zA-Z0-9]{15,18})/): the capture, "" when none
MatchCheckoutIdText(text) ==
    LET m == "checkoutId"
        seps == {"\"", "'", ":", " ", "\t", "\n", "\r"}
        idStart(i) == i + Len(m) + RunLength(text, i + Len(m), seps, TRUE)
        starts == {i \in 1..Len(text) :
                      /\ i + Len(m) - 1 <= Len(text)
                      /\ SubSeq(text, i, i + Len(m) - 1) = m
                      /\ RunLength(text, idStart(i), AlphaNumeric, TRUE) >= MinIdLen}
    IN  IF starts = {} THEN ""
        ELSE LET i == CHOOSE k \in starts : \A k2 \in starts : k <= k2
                 n == RunLength(text, idStart(i), AlphaNumeric, TRUE)
             IN  SubSeq(text, idStart(i), idStart(i) + (IF n > MaxIdLen THEN MaxIdLen ELSE n) - 1)

extractCheckoutId(callData) ==
    LET requestBody == callData.requestBody
        parsedBody == IF requestBody.t = "json" THEN requestBody.v ELSE requestBody
    IN  IF MatchCheckoutsUrl(callData.url) # "" THEN Str(MatchCheckoutsUrl(callData.url))
        ELSE IF Truthy(Get(callData.response, "checkoutId"))
        THEN Get(callData.response, "checkoutId")
        ELSE IF Truthy(Get(Get(callData.response, "cartSummary"), "cartId"))
        THEN Get(Get(callData.response, "cartSummary"), "cartId")
        ELSE IF ~Truthy(requestBody) THEN Null
        ELSE IF requestBody.t = "str" /\ MatchCheckoutIdText(requestBody.v) # ""
        THEN Str(MatchCheckoutIdText(requestBody.v))
        ELSE IF parsedBody.t \in {"obj", "arr"} /\ Truthy(Get(parsedBody, "checkoutId"))
        THEN Get(parsedBody, "checkoutId")
        ELSE Null

-----------------------------------------------------------------------------
(* SFCCMonitor.extractCheckoutId (src/unnamed/part_001)                    *)

\* url.match(/\/checkouts\/([a-zA-Z0-9]{15,18})(?:\?|$)/): the capture, "" when none
monitorMatchCheckoutsUrl(url) ==
    LET m == "/checkouts/"
        idLen(i) == RunLength(url, i + Len(m), AlphaNumeric, TRUE)
        starts == {i \in 1..Len(url) :
                      /\ i + Len(m) - 1 <= Len(url)
                      /\ SubSeq(url, i, i + Len(m) - 1) = m
                      /\ idLen(i) >= MinIdLen
                      /\ idLen(i) <= MaxIdLen
                      /\ \/ i + Len(m) + idLen(i) > Len(url)
                         \/ CharAt(url, i + Len(m) + idLen(i)) = "?"}
    IN  IF starts = {} THEN ""
        ELSE LET i == CHOOSE k \in starts : \A k2 \in starts : k <= k2
             IN  SubSeq(url, i + Len(m), i + Len(m) + idLen(i) - 1)

\* x.id && x.id.length >= 15
HasLongId(x) ==
    LET id == Get(x, "id")
    IN  Truthy(id) /\ id.t \in {"str", "arr"} /\ Len(id.v) >= MinIdLen

\* a body as the extractor reads it: a string is parsed when it is JSON and kept when it is not
ParsedOrKept(body) == IF body.t = "json" THEN body.v ELSE body

\* priority 2: the response body
monitorResponseCheckoutId(responseBody) ==
    LET parsedResponse == ParsedOrKept(responseBody)
        data == Get(parsedResponse, "data")
    IN  IF ~Truthy(responseBody) \/ parsedResponse.t \notin {"obj", "arr"} THEN Null
        ELSE IF Truthy(Get(parsedResponse, "checkoutId")) THEN Get(parsedResponse, "checkoutId")
        ELSE IF HasLongId(parsedResponse) THEN Get(parsedResponse, "id")
        ELSE IF ~Truthy(data) THEN Null
        ELSE IF Truthy(Get(data, "checkoutId")) THEN Get(data, "checkoutId")
        ELSE IF HasLongId(data) THEN Get(data, "id")
        ELSE Null

\* priority 3: the request body
monitorRequestCheckoutId(requestBody) ==
    LET parsedBody == ParsedOrKept(requestBody)
    IN  IF ~Truthy(requestBody) THEN Null
        ELSE IF requestBody.t = "str" /\ MatchCheckoutIdText(requestBody.v) # ""
        THEN Str(MatchCheckoutIdText(requestBody.v))
        ELSE IF parsedBody.t \notin {"obj", "arr"} THEN Null
        ELSE IF Truthy(Get(parsedBody, "checkoutId")) THEN Get(parsedBody, "checkoutId")
        ELSE IF HasLongId(parsedBody) THEN Get(parsedBody, "id")
        ELSE Null

\* an extractor that asks the request body before the response body
monitorExtractRequestFirst(callData) ==
    LET responseBody == OrElse(callData.responseBody, callData.response)
        fromUrl == monitorMatchCheckoutsUrl(callData.url)
        fromRequest == monitorRequestCheckoutId(callData.requestBody)
    IN  IF fromUrl # "" THEN Str(fromUrl)
        ELSE IF fromRequest.t # "null" THEN fromRequest
        ELSE monitorResponseCheckoutId(responseBody)

monitorExtractCheckoutId(callData) ==
    LET responseBody == OrElse(callData.responseBody, callData.response)
        fromUrl == monitorMatchCheckoutsUrl(callData.url)
        fromResponse == monitorResponseCheckoutId(responseBody)
    IN  IF fromUrl # "" THEN Str(fromUrl)
        ELSE IF fromResponse.t # "null" THEN fromResponse
        ELSE monitorRequestCheckoutId(callData.requestBody)

\* body?.paymentToken || body?.token || body?.paymentMethodId, null when JSON.parse throws
extractPaymentToken(requestBody) ==
    IF requestBody.t = "str" THEN Null
    ELSE LET body == IF requestBody.t = "json" THEN requestBody.v ELSE requestBody
         IN  OrElse(Get(body, "paymentToken"), OrElse(Get(body, "token"), Get(body, "paymentMethodId")))

determineActiveUpdateType(call) ==
    LET body == parseRequestBody(call.requestBody)
        has(k) == Truthy(Get(body, k))
    IN  IF ~Truthy(body) THEN "unknown"
        ELSE IF has("deliveryAddress") /\ has("desiredDeliveryDate") THEN "delivery-address-with-date"
        ELSE IF has("deliveryAddress") THEN "delivery-address"
        ELSE IF has("desiredDeliveryDate") THEN "delivery-date"
        ELSE IF has("shippingInstructions") THEN "shipping-instructions"
        ELSE IF has("deliveryMethodId") THEN "delivery-method"
        ELSE IF has("contactInfo") THEN "contact-info"
        ELSE IF has("paymentDetails") \/ has("paymentMethodId") \/ has("billingAddress") THEN "payment-info"
        ELSE "unknown"

addressTypeOf(call) ==
    LET url == toLowerCase(call.url)
        payload == parseRequestBody(call.requestBody)
    IN  IF includes(url, "shipping") \/ includes(url, "delivery") \/ Truthy(Get(payload, "deliveryAddress"))
        THEN Str("shipping")
        ELSE IF includes(url, "billing") \/ Truthy(Get(payload, "billingAddress")) THEN Str("billing")
        ELSE IF Truthy(Get(Get(payload, "address"), "addressType"))
        THEN Get(Get(payload, "address"), "addressType")
        ELSE Str("unknown")

\* x?.a?.b ... along a path; "#0" is the index [0]
RECURSIVE Follow(_, _, _)
Follow(x, path, i) ==
    IF i > Len(path) THEN x
    ELSE Follow(IF path[i] = "#0" THEN GetIndex(x, 0) ELSE Get(x, path[i]), path, i + 1)

\* p1 || p2 || ... over the paths of src
RECURSIVE FirstOf(_, _, _)
FirstOf(src, paths, i) ==
    IF i >= Len(paths) THEN Follow(src, paths[i], 1)
    ELSE OrElse(Follow(src, paths[i], 1), FirstOf(src, paths, i + 1))

\* an extractor applied to the call: [threw, value]
EvalExtractor(e, call) ==
    CASE e.kind = "response" -> [threw |-> FALSE, value |-> FirstOf(call.response, e.paths, 1)]
      [] e.kind = "request" ->
            [threw |-> FALSE, value |-> FirstOf(parseRequestBody(call.requestBody), e.paths, 1)]
      [] e.kind = "paymentToken" -> [threw |-> FALSE, value |-> extractPaymentToken(call.requestBody)]
      [] e.kind = "checkoutId" -> [threw |-> FALSE, value |-> extractCheckoutId(call)]
      [] e.kind = "addressType" -> [threw |-> FALSE, value |-> addressTypeOf(call)]
      [] e.kind = "updateType" -> [threw |-> FALSE, value |-> Str(determineActiveUpdateType(call))]
      [] e.kind = "method" -> [threw |-> FALSE, value |-> Str(call.method)]
      [] e.kind = "null" -> [threw |-> FALSE, value |-> Null]
      [] e.kind = "throws" -> [threw |-> TRUE, value |-> Undefined]

\* a validator applied to the call: [threw, value]
EvalValidator(v, call) ==
    CASE v.kind = "okNoErrors" ->
            [threw |-> FALSE,
             value |-> Bool(call.status < 400 /\ ~Truthy(Get(call.response, "errors")))]
      [] v.kind = "okAndAny" ->
            [threw |-> FALSE,
             value |-> IF call.status < 400
                       THEN FirstOf(call.response, [i \in 1..Len(v.keys) |-> <<v.keys[i]>>], 1)
                       ELSE Bool(FALSE)]
      [] v.kind = "ok" -> [threw |-> FALSE, value |-> Bool(call.status < 400)]
      [] v.kind = "throws" -> [threw |-> TRUE, value |-> Undefined]

-----------------------------------------------------------------------------
(* CheckoutCallAnalyzer.analyzeCall                                        *)

\* obj[name] = value
SetProp(props, name, value) == (name :> value) @@ props

\* an extractor loop that gives up at the first extractor that throws
RECURSIVE ApplyExtractorsUntilThrow(_, _, _, _)
ApplyExtractorsUntilThrow(props, extractors, call, i) ==
    IF i > Len(extractors) THEN props
    ELSE LET r == EvalExtractor(extractors[i], call)
         IN  IF r.threw THEN props
             ELSE ApplyExtractorsUntilThrow(
                      IF r.value.t \notin {"null", "undefined"}
                      THEN SetProp(props, extractors[i].name, r.value) ELSE props,
                      extractors, call, i + 1)

RECURSIVE ApplyExtractors(_, _, _, _)
ApplyExtractors(props, extractors, call, i) ==
    IF i > Len(extractors) THEN props
    ELSE LET r == EvalExtractor(extractors[i], call)
         IN  ApplyExtractors(
                 IF ~r.threw /\ r.value.t \notin {"null", "undefined"}
                 THEN SetProp(props, extractors[i].name, r.value) ELSE props,
                 extractors, call, i + 1)

RECURSIVE ApplyValidators(_, _, _, _)
ApplyValidators(props, validators, call, i) ==
    IF i > Len(validators) THEN props
    ELSE LET r == EvalValidator(validators[i], call)
         IN  ApplyValidators(
                 IF ~r.threw THEN SetProp(props, validators[i].name, r.value) ELSE props,
                 validators, call, i + 1)

\* a comparator that sorts by priority ascending
ComparePriorityAscending(a, b) == a.priority - b.priority

\* the comparator of matchedTypes.sort: negative when a goes before b
ComparePriority(a, b) == b.priority - a.priority

b_priority_le(x, y) == y.priority - x.priority <= 0

\* an unstable insertion: x goes before the entries of its own priority
RECURSIVE InsertSortedTiesFirst(_, _, _)
InsertSortedTiesFirst(sorted, x, i) ==
    IF i > Len(sorted) THEN Append(sorted, x)
    ELSE IF b_priority_le(x, sorted[i])
    THEN SubSeq(sorted, 1, i - 1) \o <<x>> \o SubSeq(sorted, i, Len(sorted))
    ELSE InsertSortedTiesFirst(sorted, x, i + 1)

\* Array.prototype.sort is stable: x goes after every entry it does not precede
RECURSIVE InsertSorted(_, _, _)
InsertSorted(sorted, x, i) ==
    IF i > Len(sorted) THEN Append(sorted, x)
    ELSE IF ComparePriority(x, sorted[i]) < 0
    THEN SubSeq(sorted, 1, i - 1) \o <<x>> \o SubSeq(sorted, i, Len(sorted))
    ELSE InsertSorted(sorted, x, i + 1)

RECURSIVE SortMatched(_, _)
SortMatched(matched, n) ==
    IF n = 0 THEN <<>> ELSE InsertSorted(SortMatched(matched, n - 1), matched[n], 1)

\* the call types that match, in the order of the Map
MatchedTypes(types, callData) ==
    SelectSeq(types, LAMBDA t : matchesCallType(types, callData, t))

\* an analyzeCall that tags a call no type matches as "unclassified"
analyzeCallTagging(types, callData) ==
    [done |-> TRUE, call |-> callData, matched |-> <<>>,
     props |-> SetProp(<<>>, "callType", Str("unclassified"))]

\* [done, call, matched, props]: props are the properties analyzeCall adds to the copy of the call,
\* matched is matchedTypes after its sort (names only)
analyzeCall(types, callData) ==
    LET found == MatchedTypes(types, callData)
        matchedTypes == SortMatched(found, Len(found))
        primaryMatch == matchedTypes[1]
        p0 == SetProp(SetProp(<<>>, "callType", Str(primaryMatch.name)),
                      "checkoutStage", Str(primaryMatch.stage))
        p1 == ApplyExtractors(p0, primaryMatch.extractors, callData, 1)
        p2 == ApplyValidators(p1, primaryMatch.validators, callData, 1)
    IN  [done |-> TRUE, call |-> callData,
         matched |-> [i \in 1..Len(matchedTypes) |-> matchedTypes[i].name],
         props |-> IF Len(matchedTypes) > 0 THEN p2 ELSE <<>>]

-----------------------------------------------------------------------------
(* Inputs of the analyzer                                                  *)

MaxRegistrations == 2

Call(method, url, status, requestBody, response) ==
    [method |-> method, url |-> url, status |-> status,
     requestBody |-> requestBody, response |-> response]

InvalidPaymentResponse ==
    Obj("errors" :> Arr(<<Obj("message" :> Str("Invalid payment method"))>>))

\* the failed payment of the example scenario, as described (no request body)
FailedPaymentCall ==
    Call("POST", "/checkouts/ABC123456789012/payments", 400, Undefined, InvalidPaymentResponse)

\* the same call carrying a payment token in its request body
FailedPaymentCallWithToken ==
    Call("POST", "/checkouts/ABC123456789012/payments", 400,
         JsonText(Obj("paymentToken" :> Str("tok_12345"))), InvalidPaymentResponse)

AnalyzerCalls ==
    <<Call("POST", "/cart/1", 200, Undefined, Undefined),
      Call("post", "/CART/1", 200, Undefined, Undefined),
      Call("GET", "/cart/1", 200, Undefined, Undefined),
      Call("DELETE", "/other", 200, Undefined, Undefined),
      Call("POST", "/other", 500, Str("not json"), Obj("errors" :> Arr(<<>>))),
      FailedPaymentCall,
      FailedPaymentCallWithToken,
      Call("PATCH", "/checkouts/active", 200,
           JsonText(Obj("deliveryMethodId" :> Str("dm1"))), EmptyObj),
      Call("GET", "/checkouts/ABC123456789012", 200, Undefined,
           Obj("cartSummary" :> Obj("cartId" :> Str("cart1"))))>>

\* a config object that gives only the fields named in given
PartialConfig(given, urlPatterns, methods, stage, payloadMatchers, priority) ==
    [given |-> given, urlPatterns |-> urlPatterns, methods |-> methods, stage |-> stage,
     payloadMatchers |-> payloadMatchers, extractors |-> <<>>, validators |-> <<>>,
     priority |-> priority]

CustomConfigs ==
    <<PartialConfig({"urlPatterns", "methods", "stage", "priority"},
                    <<"/Cart">>, <<"POST">>, "stageLow", <<>>, 10),
      PartialConfig({"urlPatterns", "methods", "stage", "priority"},
                    <<"/Cart">>, <<"POST">>, "stageHigh", <<>>, 30),
      PartialConfig({"urlPatterns"},
                    <<"/Cart">>, <<>>, "", <<>>, 0),
      PartialConfig({"urlPatterns", "methods", "payloadMatchers", "priority"},
                    <<"/zzz", "/CART/">>, <<"POST", "GET">>, "", <<Matcher("never", {})>>, 30),
      PartialConfig({"methods", "stage", "payloadMatchers", "priority"},
                    <<>>, <<"POST">>, "stagePayload",
                    <<Matcher("throws", {}), Matcher("always", {})>>, 10),
      PartialConfig({"urlPatterns", "methods", "stage", "payloadMatchers", "priority"},
                    <<"/Cart">>, <<"POST", "GET">>, "stageBoth",
                    <<Matcher("hasResponseKeys", {"errors"})>>, 30),
      PartialConfig({"urlPatterns", "methods", "stage", "payloadMatchers", "priority"},
                    <<"/cart">>, <<"GET", "POST">>, "stageEmpty", <<>>, 10),
      Config(<<"/cart">>, <<"POST">>, "stageExtract", <<>>,
             <<Extractor("brokenField", "throws", <<>>),
               Extractor("absentField", "null", <<>>),
               Extractor("requestMethod", "method", <<>>)>>,
             <<Validator("brokenCheck", "throws", <<>>),
               Validator("isSuccessful", "ok", <<>>)>>,
             40)>>

CustomNames == <<"ruleA", "ruleB">>

-----------------------------------------------------------------------------------------------------------------------------------------------------
(***************************************************************************)
(* JavaScript helpers of the correlation engines: JSON.stringify,          *)
(* String.prototype.split, String(x), and exact fractions for the          *)
(* floating-point scores (every score of the engines is a fraction with a  *)
(* small denominator, so comparisons are made on fractions).               *)
(***************************************************************************)
\* the characters of a JSON string literal: a double quote is escaped
RECURSIVE EscapeRange(_, _, _)
EscapeRange(s, lo, hi) ==
    IF lo > hi THEN ""
    ELSE IF lo = hi
         THEN (IF CharAt(s, lo) = "\"" THEN "\\\"" ELSE CharAt(s, lo))
         ELSE EscapeRange(s, lo, (lo + hi) \div 2)
                 \o EscapeRange(s, ((lo + hi) \div 2) + 1, hi)

Quote(s) == "\"" \o EscapeRange(s, 1, Len(s)) \o "\""

RECURSIVE Stringify(_)
RECURSIVE StringifyFields(_, _)
RECURSIVE StringifyItems(_, _)
\* the properties of an object, an undefined one being left out
StringifyFields(f, keys) ==
    IF keys = {} THEN ""
    ELSE LET k == CHOOSE x \in keys : TRUE
             rest == StringifyFields(f, keys \ {k})
         IN Quote(k) \o ":" \o Stringify(f[k])
                \o (IF rest = "" THEN "" ELSE "," \o rest)

\* the elements of an array, an undefined one being written as null
StringifyItems(q, i) ==
    IF i > Len(q) THEN ""
    ELSE (IF q[i].t = "undefined" THEN "null" ELSE Stringify(q[i]))
            \o (IF i < Len(q) THEN "," ELSE "")
            \o StringifyItems(q, i + 1)

\* JSON.stringify(x) for a value other than undefined
Stringify(x) ==
    CASE x.t = "str" -> Quote(x.v)
      [] x.t = "json" -> Quote(Stringify(x.v))
      [] x.t = "num" -> ToString(x.v)
      [] x.t = "bool" -> IF x.v THEN "true" ELSE "false"
      [] x.t = "obj" ->
            "{" \o StringifyFields(x.v,
                      {k \in DOMAIN x.v : x.v[k].t # "undefined"}) \o "}"
      [] x.t = "arr" -> "[" \o StringifyItems(x.v, 1) \o "]"
      [] OTHER -> "null"

\* String(x), as String.prototype.includes and toString() convert a value
RECURSIVE ToText(_)
RECURSIVE JoinItems(_, _)
JoinItems(q, i) ==
    IF i > Len(q) THEN ""
    ELSE (IF q[i].t \in {"undefined", "null"} THEN "" ELSE ToText(q[i]))
            \o (IF i < Len(q) THEN "," ELSE "")
            \o JoinItems(q, i + 1)

ToText(x) ==
    CASE x.t = "str" -> x.v
      [] x.t = "json" -> Stringify(x.v)
      [] x.t = "num" -> ToString(x.v)
      [] x.t = "bool" -> IF x.v THEN "true" ELSE "false"
      [] x.t = "arr" -> JoinItems(x.v, 1)
      [] x.t = "obj" -> "[object Object]"
      [] OTHER -> x.t

\* s.split(sep) for a separator of one character: the parts between the separators
split(s, sep) ==
    LET seps == {i \in 1..Len(s) : CharAt(s, i) = sep}
        n == Cardinality(seps)
        bound(k) == IF k = 0 THEN 0
                    ELSE IF k > n THEN Len(s) + 1
                    ELSE CHOOSE i \in seps : Cardinality({j \in seps : j < i}) = k - 1
    IN  [k \in 1..(n + 1) |-> SubSeq(s, bound(k - 1) + 1, bound(k) - 1)]

Abs(n) == IF n < 0 THEN 0 - n ELSE n

Max(a, b) == IF a >= b THEN a ELSE b

Min(a, b) == IF a <= b THEN a ELSE b

\* the fraction n / d, d > 0
Frac(n, d) == [num |-> n, den |-> d]

\* the sign of a/b - c/d for a, c >= 0 and b, d > 0, without a product
RECURSIVE CompareNonNegative(_, _, _, _)
CompareNonNegative(a, b, c, d) ==
    LET q1 == a \div b
        q2 == c \div d
        r1 == a % b
        r2 == c % d
    IN IF q1 # q2 THEN (IF q1 < q2 THEN 0 - 1 ELSE 1)
       ELSE IF r1 = 0 /\ r2 = 0 THEN 0
       ELSE IF r1 = 0 THEN 0 - 1
       ELSE IF r2 = 0 THEN 1
       ELSE CompareNonNegative(d, r2, b, r1)

\* the sign of x - y
CompareFrac(x, y) ==
    IF x.den = y.den
    THEN (IF x.num < y.num THEN 0 - 1 ELSE IF x.num > y.num THEN 1 ELSE 0)
    ELSE IF x.num < 0 /\ y.num >= 0 THEN 0 - 1
    ELSE IF x.num >= 0 /\ y.num < 0 THEN 1
    ELSE IF x.num < 0
         THEN CompareNonNegative(0 - y.num, y.den, 0 - x.num, x.den)
         ELSE CompareNonNegative(x.num, x.den, y.num, y.den)

FracGE(x, y) == CompareFrac(x, y) >= 0

FracGT(x, y) == CompareFrac(x, y) > 0

\* x?.length > 0 of an array (undefined > 0 is false)
NonEmptyArray(x) == x.t = "arr" /\ Len(x.v) > 0

(***************************************************************************)
(* Network calls and Salesforce logs as the correlation engines read them  *)
(***************************************************************************)
\* a network call with the fields the monitor adds to it
NetworkCall(call, timestamp, checkoutId, webstoreId) ==
    [method |-> call.method, url |-> call.url, status |-> call.status,
     requestBody |-> call.requestBody, response |-> call.response,
     timestamp |-> timestamp, checkoutId |-> checkoutId,
     webstoreId |-> webstoreId]

\* an ApexLog record with its body and the parser's result; StartTime is
\* the instant in milliseconds that new Date(log.StartTime) yields
SalesforceLog(Id, StartTime, Operation, Request, body, parsed) ==
    [Id |-> Id, StartTime |-> StartTime, Operation |-> Operation,
     Request |-> Request, body |-> body, parsed |-> parsed]

\* Math.abs(new Date(call.timestamp) - new Date(log.StartTime))
TimeDiff(call, log) == Abs(call.timestamp - log.StartTime)

\* a window test that lets every pair through
AlwaysWithinWindow(timeDiff, window) == TRUE

\* timeDiff <= timeWindow
WithinWindow(timeDiff, window) == timeDiff <= window

\* a comparator that orders by confidence ascending
CompareConfidenceAscending(a, b) == CompareFrac(a.confidence, b.confidence)

\* the sign of b.confidence - a.confidence
CompareConfidence(a, b) == CompareFrac(b.confidence, a.confidence)

\* Array.prototype.sort is stable: x goes after the elements that do not
\* compare after it
RECURSIVE InsertByConfidence(_, _, _)
InsertByConfidence(sorted, x, i) ==
    IF i > Len(sorted) THEN Append(sorted, x)
    ELSE IF CompareConfidence(sorted[i], x) > 0
         THEN SubSeq(sorted, 1, i - 1) \o <<x>> \o SubSeq(sorted, i, Len(sorted))
         ELSE InsertByConfidence(sorted, x, i + 1)

RECURSIVE SortByConfidence(_, _)
SortByConfidence(correlations, n) ==
    IF n = 0 THEN <<>>
    ELSE InsertByConfidence(SortByConfidence(correlations, n - 1),
                            correlations[n], 1)

(***************************************************************************)
(* CorrelationEngine of the monitor (src/unnamed/part_001): every pair of  *)
(* a call and a log inside the time window is scored out of 100 points.    *)
(* A score is held in units of 1/(1000*60*2) of a point, the step of the   *)
(* time score, so that it is an integer.                                   *)
(***************************************************************************)
confidenceThreshold == Frac(6, 10)

timeWindow == 5 * 60 * 1000

\* the number of units in one point of the score
PointUnits == 1000 * 60 * 2

\* String.prototype.includes on lower-cased operands
calculateOperationMatch(networkCall, salesforceLog) ==
    LET url == toLowerCase(networkCall.url)
        operation == toLowerCase(salesforceLog.Operation)
        request == toLowerCase(salesforceLog.Request)
        Both(word) ==
            includes(url, word)
                /\ (includes(operation, word) \/ includes(request, word))
        score == IF Both("payment") THEN 20
                 ELSE IF Both("checkout") THEN 18
                 ELSE IF Both("cart") THEN 15
                 ELSE IF Both("inventory") THEN 15
                 ELSE IF Both("tax") THEN 12
                 ELSE 0
    IN Min(score, 20)

\* the string values of the parsed request body that are longer than 3
\* characters: JSON.parse of the stringified body gives an object or an
\* array for an object or array body, and a string (whose Object.values
\* are single characters) for a string body
BodyKeywords(requestBody) ==
    LET body == OrElse(requestBody, EmptyObj)
    IN IF body.t \in {"obj", "arr"}
       THEN {toLowerCase(body.v[k].v) :
                k \in {x \in DOMAIN body.v :
                          body.v[x].t = "str" /\ Len(body.v[x].v) > 3}}
       ELSE {}

\* extractKeywords(url, requestBody): the set of distinct keywords
extractKeywords(url, requestBody) ==
    LET urlParts == split(url, "/")
    IN {urlParts[i] : i \in {j \in 1..Len(urlParts) : Len(urlParts[j]) > 3}}
          \cup BodyKeywords(requestBody)

calculateContentMatch(networkCall, salesforceLog) ==
    LET logBody == toLowerCase(salesforceLog.body)
        url == toLowerCase(networkCall.url)
        keywords == extractKeywords(url, networkCall.requestBody)
        score == 3 * Cardinality({k \in keywords : includes(logBody, k)})
    IN Min(score, 20)

\* one row of the edit-distance matrix from the row above it
RECURSIVE MatrixRow(_, _, _, _, _)
MatrixRow(above, ch, str1, j, row) ==
    IF j > Len(str1) THEN row
    ELSE LET cell == IF ch = CharAt(str1, j)
                     THEN above[j]
                     ELSE Min(above[j] + 1,
                              Min(row[j] + 1, above[j + 1] + 1))
         IN MatrixRow(above, ch, str1, j + 1, Append(row, cell))

RECURSIVE MatrixFrom(_, _, _, _)
MatrixFrom(str1, str2, i, above) ==
    IF i > Len(str2) THEN above
    ELSE LET row == MatrixRow(above, CharAt(str2, i), str1, 1, <<i>>)
         IN IF Len(row) = Len(above)
            THEN MatrixFrom(str1, str2, i + 1, row)
            ELSE <<>>

\* matrix[str2.length][str1.length]; a row holds columns 0..str1.length
levenshteinDistance(str1, str2) ==
    MatrixFrom(str1, str2, 1, [j \in 1..(Len(str1) + 1) |-> j - 1])[Len(str1) + 1]

\* (longer.length - editDistance) / longer.length, 0 for an empty operand
calculateStringSimilarity(str1, str2) ==
    IF str1 = "" \/ str2 = "" THEN Frac(0, 1)
    ELSE LET longer == IF Len(str1) > Len(str2) THEN str1 ELSE str2
             shorter == IF Len(str1) > Len(str2) THEN str2 ELSE str1
         IN Frac(Len(longer) - levenshteinDistance(longer, shorter),
                 Len(longer))

\* x.message || x.title || "" as a string
ErrorText(err) ==
    LET m == OrElse(Get(err, "message"), OrElse(Get(err, "title"), Str("")))
    IN ToText(m)

calculateErrorMatch(networkCall, salesforceLog) ==
    IF networkCall.status < 400
          \/ ~NonEmptyArray(Get(salesforceLog.parsed, "errors"))
    THEN 0
    ELSE LET networkErrors ==
                 OrElse(Get(networkCall.response, "errors"), Arr(<<>>)).v
             sfErrors == Get(salesforceLog.parsed, "errors").v
             similar == {p \in (DOMAIN networkErrors) \X (DOMAIN sfErrors) :
                            FracGT(calculateStringSimilarity(
                                       ErrorText(networkErrors[p[1]]),
                                       ErrorText(sfErrors[p[2]])),
                                   Frac(3, 10))}
             score == IF Len(networkErrors) > 0 /\ Len(sfErrors) > 0
                      THEN 10 + 5 * Cardinality(similar)
                      ELSE 0
         IN Min(score, 15)

\* extractPaymentToken of the engine: null when JSON.parse throws
engineExtractPaymentToken(requestBody) ==
    IF requestBody.t = "str" THEN Null
    ELSE LET body == IF requestBody.t = "json" THEN requestBody.v
                     ELSE requestBody
         IN OrElse(Get(body, "paymentToken"),
                   OrElse(Get(body, "token"), Get(body, "paymentMethodId")))

\* id && logBody.includes(id)
IncludesValue(text, id) == Truthy(id) /\ includes(text, ToText(id))

\* the mirror image of the checkout-id test: points when the id is absent
calculateIdMatchAbsent(networkCall, salesforceLog) ==
    LET logBody == salesforceLog.body
    IN Min((IF ~IncludesValue(logBody, networkCall.checkoutId)
            THEN 15 ELSE 0), 20)

calculateIdMatch(networkCall, salesforceLog) ==
    LET logBody == salesforceLog.body
        checkout == IF IncludesValue(logBody, networkCall.checkoutId)
                    THEN 15 ELSE 0
        webstore == IF IncludesValue(logBody, networkCall.webstoreId)
                    THEN 10 ELSE 0
        token == IF Truthy(networkCall.requestBody)
                    /\ IncludesValue(logBody,
                          engineExtractPaymentToken(networkCall.requestBody))
                 THEN 12 ELSE 0
    IN Min(checkout + webstore + token, 20)

determineCorrelationType(networkCall, salesforceLog) ==
    LET url == toLowerCase(networkCall.url)
        hasErrors == networkCall.status >= 400
                        \/ NonEmptyArray(Get(salesforceLog.parsed, "errors"))
    IN IF hasErrors THEN "error"
       ELSE IF includes(url, "payment") THEN "payment"
       ELSE IF includes(url, "checkout") THEN "checkout"
       ELSE IF includes(url, "inventory") THEN "inventory"
       ELSE IF includes(url, "shipping") \/ includes(url, "delivery")
            THEN "shipping"
       ELSE IF includes(url, "tax") THEN "tax"
       ELSE "general"

\* Math.max(0, 25 - timeDiff / 1000 / 60 / 2), in units
TimeScoreUnits(timeDiff) == Max(0, 25 * PointUnits - timeDiff)

\* confidence = Math.min(score / maxScore, 1)
calculateCorrelation(networkCall, salesforceLog) ==
    LET timeDiff == TimeDiff(networkCall, salesforceLog)
        maxScore == 100
        timeScore == TimeScoreUnits(timeDiff)
        operationScore == calculateOperationMatch(networkCall, salesforceLog)
        contentScore == calculateContentMatch(networkCall, salesforceLog)
        errorScore == calculateErrorMatch(networkCall, salesforceLog)
        idScore == calculateIdMatch(networkCall, salesforceLog)
        score == timeScore
                    + PointUnits
                        * (operationScore + contentScore + errorScore + idScore)
    IN [confidence |-> Frac(Min(score, maxScore * PointUnits),
                            maxScore * PointUnits),
        score |-> Frac(score, PointUnits),
        maxScore |-> Frac(maxScore, 1),
        factors |-> [time |-> Frac(timeScore, PointUnits),
                     operation |-> operationScore,
                     content |-> contentScore,
                     error |-> errorScore,
                     id |-> idScore],
        type |-> determineCorrelationType(networkCall, salesforceLog)]

\* the pairs inside the time window, scored, calls first and logs second
ScoredPairs(calls, logs) ==
    LET pairs == [k \in 1..(Len(calls) * Len(logs)) |->
                     <<calls[((k - 1) \div Len(logs)) + 1],
                       logs[((k - 1) % Len(logs)) + 1]>>]
        inside == SelectSeq(pairs,
                      LAMBDA p : WithinWindow(TimeDiff(p[1], p[2]), timeWindow))
    IN [k \in 1..Len(inside) |->
           LET correlation == calculateCorrelation(inside[k][1], inside[k][2])
           IN [networkCall |-> inside[k][1],
               salesforceLog |-> inside[k][2],
               confidence |-> correlation.confidence,
               score |-> correlation.score,
               maxScore |-> correlation.maxScore,
               factors |-> correlation.factors,
               type |-> correlation.type,
               timeDifference |-> TimeDiff(inside[k][1], inside[k][2])]]

\* correlation.confidence >= this.confidenceThreshold
MeetsThreshold(correlation) ==
    FracGE(correlation.confidence, confidenceThreshold)

\* correlateAll of the monitor's engine; scored keeps every pair it scored
correlateAll(calls, logs) ==
    LET scored == ScoredPairs(calls, logs)
        correlations == SelectSeq(scored, MeetsThreshold)
    IN [scored |-> scored,
        correlations |-> SortByConfidence(correlations, Len(correlations))]

(***************************************************************************)
(* CorrelationEngine of src/analyzer-files/salesforce-api.js: correlation  *)
(* rules with patterns, a time window and a weight.  A regular expression  *)
(* is a literal with its flags; an extractor is the property it reads.     *)
(* A score is held in thousandths of a point (timeDiff / 1000).            *)
(***************************************************************************)
RegExp(source, flags) == [source |-> source, flags |-> flags]

\* pattern.test(text) for a literal pattern
test(pattern, text) ==
    IF includes(pattern.flags, "i")
    THEN includes(toLowerCase(text), toLowerCase(pattern.source))
    ELSE includes(text, pattern.source)

\* (call) => call.requestBody?.key or call.response?.key
RuleExtractor(name, from, key) == [name |-> name, from |-> from, key |-> key]

EvalRuleExtractor(e, call) ==
    IF e.from = "requestBody" THEN Get(call.requestBody, e.key)
    ELSE Get(call.response, e.key)

RuleConfig(given, networkPatterns, logPatterns, window, weight, extractors) ==
    [given |-> given, networkPatterns |-> networkPatterns,
     logPatterns |-> logPatterns, timeWindow |-> window, weight |-> weight,
     extractors |-> extractors]

FullRule == {"networkPatterns", "logPatterns", "timeWindow", "weight", "extractors"}

\* the entry addRule stores
RuleEntry(name, config) ==
    [name |-> name,
     networkPatterns |-> FieldOr(config, "networkPatterns", TRUE, <<>>),
     logPatterns |-> FieldOr(config, "logPatterns", TRUE, <<>>),
     timeWindow |-> FieldOr(config, "timeWindow", config.timeWindow # 0, 30000),
     weight |-> FieldOr(config, "weight", config.weight # 0, 5),
     extractors |-> FieldOr(config, "extractors", TRUE, <<>>)]

addRule(rules, name, config) == MapSet(rules, name, RuleEntry(name, config))

PaymentRule ==
    RuleConfig(FullRule,
               <<RegExp("payment", "i"), RegExp("billing", "i")>>,
               <<RegExp("payment", "i"), RegExp("billing", "i"),
                 RegExp("creditcard", "i")>>,
               30000, 10,
               <<RuleExtractor("paymentToken", "requestBody", "paymentToken"),
                 RuleExtractor("orderId", "response", "orderId")>>)

DeliveryRule ==
    RuleConfig(FullRule,
               <<RegExp("delivery", "i"), RegExp("shipping", "i")>>,
               <<RegExp("delivery", "i"), RegExp("shipping", "i"),
                 RegExp("freight", "i")>>,
               20000, 8,
               <<RuleExtractor("deliveryId", "requestBody", "deliveryMethodId"),
                 RuleExtractor("shippingAddress", "response", "deliveryAddress")>>)

CartRule ==
    RuleConfig(FullRule,
               <<RegExp("cart", "i"), RegExp("inventory", "i"),
                 RegExp("product", "i")>>,
               <<RegExp("cart", "i"), RegExp("inventory", "i"),
                 RegExp("product", "i"), RegExp("stock", "i")>>,
               15000, 6,
               <<RuleExtractor("productId", "requestBody", "productId"),
                 RuleExtractor("cartId", "response", "cartId")>>)

AddressRule ==
    RuleConfig(FullRule,
               <<RegExp("address", "i"), RegExp("location", "i")>>,
               <<RegExp("address", "i"), RegExp("location", "i"),
                 RegExp("geocode", "i")>>,
               25000, 7,
               <<RuleExtractor("addressId", "response", "addressId"),
                 RuleExtractor("zipCode", "requestBody", "postalCode")>>)

TaxRule ==
    RuleConfig(FullRule,
               <<RegExp("tax", "i"), RegExp("calculate", "i")>>,
               <<RegExp("tax", "i"), RegExp("calculate", "i"),
                 RegExp("rate", "i")>>,
               10000, 9,
               <<RuleExtractor("taxAmount", "response", "totalTaxAmount"),
                 RuleExtractor("jurisdiction", "response", "taxJurisdiction")>>)

initializeDefaultRules ==
    addRule(addRule(addRule(addRule(addRule(<<>>,
        "payment", PaymentRule),
        "delivery", DeliveryRule),
        "cart", CartRule),
        "address", AddressRule),
        "tax", TaxRule)

matchesNetworkPatterns(networkCall, patterns) ==
    LET searchText ==
            networkCall.url \o " "
                \o Stringify(OrElse(networkCall.requestBody, EmptyObj)) \o " "
                \o Stringify(OrElse(networkCall.response, EmptyObj))
    IN \E i \in 1..Len(patterns) : test(patterns[i], searchText)

matchesLogPatterns(log, patterns) ==
    LET searchText ==
            log.body \o " "
                \o ToText(OrElse(Get(log.parsed, "apexClass"), Str(""))) \o " "
                \o Stringify(OrElse(log.parsed, EmptyObj))
    IN \E i \in 1..Len(patterns) : test(patterns[i], searchText)

\* the number of patterns that test true on the text
CountMatches(patterns, text) ==
    Cardinality({i \in 1..Len(patterns) : test(patterns[i], text)})

\* logUser.includes(callUser) || callUser.includes(logUser)
UserMatches(networkCall, salesforceLog) ==
    LET userInfo == Get(salesforceLog.parsed, "userInfo")
        user == Get(networkCall.response, "user")
    IN /\ Truthy(userInfo)
       /\ Truthy(user)
       /\ LET logUser == toLowerCase(ToText(userInfo))
              callUser == toLowerCase(ToText(user))
          IN includes(logUser, callUser) \/ includes(callUser, logUser)

\* score and maxScore in thousandths of a point
scoreCorrelation(networkCall, salesforceLog, rule) ==
    LET timeDiff == TimeDiff(networkCall, salesforceLog)
        timeScore == Max(0, 10 * 1000 - timeDiff)
        networkText ==
            toLowerCase(networkCall.url \o " "
                \o Stringify(OrElse(networkCall.requestBody, EmptyObj)))
        logText ==
            toLowerCase(salesforceLog.body \o " "
                \o Stringify(OrElse(salesforceLog.parsed, EmptyObj)))
        patternScore == 2 * (CountMatches(rule.networkPatterns, networkText)
                             + CountMatches(rule.logPatterns, logText))
        dataScore ==
            5 * Cardinality({i \in 1..Len(rule.extractors) :
                  LET extractedValue ==
                          EvalRuleExtractor(rule.extractors[i], networkCall)
                  IN /\ Truthy(extractedValue)
                     /\ includes(logText, toLowerCase(ToText(extractedValue)))})
        errorScore ==
            IF networkCall.status >= 400
                  /\ NonEmptyArray(Get(salesforceLog.parsed, "errors"))
            THEN 3 ELSE 0
        userScore == IF UserMatches(networkCall, salesforceLog) THEN 4 ELSE 0
        score == timeScore
                    + 1000 * (rule.weight + patternScore + dataScore
                              + errorScore + userScore)
        total == 1000 * (rule.weight + 10
                    + (Len(rule.networkPatterns) + Len(rule.logPatterns)) * 2
                    + Len(rule.extractors) * 5 + 3 + 4)
    IN [networkCall |-> networkCall,
        salesforceLog |-> salesforceLog,
        type |-> rule.name,
        confidence |-> IF total > 0 THEN Frac(score, total) ELSE Frac(0, 1),
        score |-> Frac(score, 1000),
        maxScore |-> Frac(total, 1000),
        timeDifference |-> timeDiff,
        factors |-> [rule_weight |-> rule.weight,
                     time_proximity |-> Frac(timeScore, 1000),
                     pattern_match |-> patternScore,
                     data_match |-> dataScore,
                     error_correlation |-> errorScore,
                     user_correlation |-> userScore]]

\* the logs of a rule inside its window that match its log patterns
CandidateLogs(networkCall, logs, rule) ==
    SelectSeq(logs,
              LAMBDA log :
                  /\ WithinWindow(TimeDiff(networkCall, log), rule.timeWindow)
                  /\ matchesLogPatterns(log, rule.logPatterns))

\* the candidates of one rule, scored
RuleScores(networkCall, logs, rule) ==
    IF ~matchesNetworkPatterns(networkCall, rule.networkPatterns) THEN <<>>
    ELSE LET candidateLogs == CandidateLogs(networkCall, logs, rule)
         IN [i \in 1..Len(candidateLogs) |->
                scoreCorrelation(networkCall, candidateLogs[i], rule)]

\* the candidates of every rule for one call, in the order of the rules
RECURSIVE CandidateScores(_, _, _, _)
CandidateScores(rules, networkCall, logs, r) ==
    IF r > Len(rules) THEN <<>>
    ELSE RuleScores(networkCall, logs, rules[r])
            \o CandidateScores(rules, networkCall, logs, r + 1)

RECURSIVE AllCandidateScores(_, _, _, _)
AllCandidateScores(rules, calls, logs, c) ==
    IF c > Len(calls) THEN <<>>
    ELSE CandidateScores(rules, calls[c], logs, 1)
            \o AllCandidateScores(rules, calls, logs, c + 1)

\* correlation.confidence > 0.3
AboveMinimum(correlation) == FracGT(correlation.confidence, Frac(3, 10))

\* findMatches keeps the scored candidates above the minimum
findMatches(rules, networkCall, logs) ==
    SelectSeq(CandidateScores(rules, networkCall, logs, 1),
              AboveMinimum)

\* correlateAll of the rule engine: the matches of every call, sorted;
\* scored keeps every candidate the engine scored
ruleCorrelateAll(rules, calls, logs) ==
    LET scored == AllCandidateScores(rules, calls, logs, 1)
        correlations == SelectSeq(scored, AboveMinimum)
    IN [scored |-> scored,
        correlations |-> SortByConfidence(correlations, Len(correlations))]

(***************************************************************************)
(* SalesforceAPI.correlateWithCheckout (src/analyzer-files/                *)
(* salesforce-api.js): relevance scores in units of 1/(1000*60*10*10), the *)
(* step of the time bonus, a tenth of the score being 1000*60*10 units.    *)
(***************************************************************************)
\* the number of units in 0.1 of a relevance score
TenthUnits == 1000 * 60 * 10

\* a final score that is not capped
UncappedScore(score) == Frac(score, 10 * TenthUnits)

\* Math.min(score, 1.0)
FinalScore(score) == Frac(Min(score, 10 * TenthUnits), 10 * TenthUnits)

\* Math.max(0, tenths/10 - timeDiff / (1000 * 60 * 10)), in units
TimeBonus(tenths, timeDiff) == Max(0, tenths * TenthUnits - 10 * timeDiff)

calculateCommerceRelevanceScore(checkoutCall, salesforceLog) ==
    LET callUrl == toLowerCase(checkoutCall.url)
        logContent == toLowerCase(salesforceLog.body)
        logRequest == toLowerCase(salesforceLog.Request)
        Either(word) == includes(logContent, word) \/ includes(logRequest, word)
        parsed == salesforceLog.parsed
        tenths ==
            (IF salesforceLog.Operation = "UniversalPerfLogger" THEN 3 ELSE 0)
            + (IF includes(callUrl, "payment") /\ Either("payment") THEN 8 ELSE 0)
            + (IF includes(callUrl, "checkout") /\ Either("checkout") THEN 7 ELSE 0)
            + (IF includes(callUrl, "/commerce/") /\ Either("commerce") THEN 6 ELSE 0)
            + (IF includes(callUrl, "webstore") /\ Either("webstore") THEN 6 ELSE 0)
            + (IF checkoutCall.status >= 400
                    /\ NonEmptyArray(Get(parsed, "errors")) THEN 8 ELSE 0)
            + (IF IncludesValue(logContent, checkoutCall.checkoutId) THEN 10 ELSE 0)
            + (IF IncludesValue(logContent, checkoutCall.webstoreId) THEN 9 ELSE 0)
            + (IF NonEmptyArray(Get(parsed, "checkoutEvents")) THEN 5 ELSE 0)
            + (IF NonEmptyArray(Get(parsed, "paymentEvents"))
                    /\ includes(callUrl, "payment") THEN 7 ELSE 0)
            + (IF NonEmptyArray(Get(parsed, "cartEvents"))
                    /\ includes(callUrl, "cart") THEN 6 ELSE 0)
        timeDiff == TimeDiff(checkoutCall, salesforceLog)
    IN FinalScore(tenths * TenthUnits + TimeBonus(3, timeDiff))

calculateRelevanceScore(checkoutCall, salesforceLog) ==
    IF salesforceLog.Operation = "UniversalPerfLogger"
    THEN calculateCommerceRelevanceScore(checkoutCall, salesforceLog)
    ELSE
    LET callUrl == toLowerCase(checkoutCall.url)
        logContent == toLowerCase(salesforceLog.body)
        logOperation == toLowerCase(salesforceLog.Operation)
        Either(word) == includes(logContent, word) \/ includes(logOperation, word)
        parsed == salesforceLog.parsed
        tenths ==
            (IF includes(callUrl, "commerce") \/ includes(callUrl, "webstore")
                    \/ includes(callUrl, "checkout") THEN 2 ELSE 0)
            + (IF includes(callUrl, "payment") /\ Either("payment") THEN 8 ELSE 0)
            + (IF includes(callUrl, "checkout") /\ Either("checkout") THEN 6 ELSE 0)
            + (IF includes(callUrl, "/api/") /\ Either("api") THEN 4 ELSE 0)
            + (IF checkoutCall.status >= 400
                    /\ NonEmptyArray(Get(parsed, "errors")) THEN 7 ELSE 0)
            + (IF IncludesValue(logContent, checkoutCall.checkoutId) THEN 10 ELSE 0)
            + (IF IncludesValue(logContent, checkoutCall.webstoreId) THEN 8 ELSE 0)
            + (IF NonEmptyArray(Get(parsed, "webserviceCalls")) THEN 3 ELSE 0)
        timeDiff == TimeDiff(checkoutCall, salesforceLog)
    IN FinalScore(tenths * TenthUnits + TimeBonus(2, timeDiff))

\* relevanceScore > 0.1
AboveRelevanceFloor(correlation) ==
    FracGT(correlation.confidence, Frac(1, 10))

\* the pairs inside the window with their relevance; the relevanceScore of
\* the source is the field confidence and its correlationType the field type
RelevancePairs(checkoutCalls, logs, window) ==
    LET pairs == [k \in 1..(Len(checkoutCalls) * Len(logs)) |->
                     <<checkoutCalls[((k - 1) \div Len(logs)) + 1],
                       logs[((k - 1) % Len(logs)) + 1]>>]
        inside == SelectSeq(pairs,
                      LAMBDA p : WithinWindow(TimeDiff(p[1], p[2]), window))
    IN [k \in 1..Len(inside) |->
           [networkCall |-> inside[k][1],
            salesforceLog |-> inside[k][2],
            timeDifference |-> TimeDiff(inside[k][1], inside[k][2]),
            confidence |->
                calculateCommerceRelevanceScore(inside[k][1], inside[k][2]),
            type |-> determineCorrelationType(inside[k][1], inside[k][2])]]

\* correlateWithCheckout with the logs that getDebugLogs returns
correlateWithCheckout(checkoutCalls, logs, window) ==
    IF Len(checkoutCalls) = 0 \/ Len(logs) = 0
    THEN [scored |-> <<>>, correlations |-> <<>>]
    ELSE LET scored == RelevancePairs(checkoutCalls, logs, window)
             correlations == SelectSeq(scored, AboveRelevanceFloor)
         IN [scored |-> scored,
             correlations |-> SortByConfidence(correlations, Len(correlations))]

(***************************************************************************)
(* Inputs of the correlation engines                                       *)
(***************************************************************************)
MaxCalls == 2

MaxLogs == 2

\* the time of the calls, in milliseconds
CallTime == 60 * 60 * 1000

CheckoutId == "ABC123456789012"

\* the result of parseCommerceLogContent for a body with these error lines
ParsedLog(errorLines) ==
    Obj("errors" :> Arr([i \in 1..Len(errorLines) |->
                            Obj("timestamp" :> Null
                                @@ "message" :> Str(errorLines[i])
                                @@ "type" :> Str("error"))])
        @@ "warnings" :> Arr(<<>>)
        @@ "checkoutEvents" :> Arr(<<>>)
        @@ "apiCalls" :> Arr(<<>>)
        @@ "paymentEvents" :> Arr(<<>>)
        @@ "cartEvents" :> Arr(<<>>)
        @@ "webserviceCalls" :> Arr(<<>>)
        @@ "apexClass" :> Null
        @@ "userInfo" :> Null
        @@ "performance" :> Obj("totalTime" :> Num(0) @@ "cpuTime" :> Num(0)
                                @@ "heapSize" :> Num(0)))

\* the failed payment call as the monitor hands it over, a call whose
\* response alone names the delivery methods, and a call that failed with a
\* response that lists no errors
CallTable ==
    <<NetworkCall(FailedPaymentCall, CallTime, Str(CheckoutId), Undefined),
      NetworkCall(Call("GET", "/orders/77", 200, Undefined,
                       Obj("availableDeliveryMethods" :> Arr(<<>>))),
                  CallTime, Undefined, Undefined),
      NetworkCall(Call("POST", "/checkouts/active/payments", 500, Undefined,
                       Obj("message" :> Str("Internal Server Error"))),
                  CallTime, Undefined, Undefined)>>

\* the log with the checkout id written after its body
WithIdentifier(log, id) == [log EXCEPT !.body = @ \o " " \o id]

PaymentStepLog(StartTime, Operation) ==
    SalesforceLog("07L1", StartTime, Operation, "", "billing payment step for", Null)

LogTable ==
    <<WithIdentifier(PaymentStepLog(CallTime + 260000, "payment"), CheckoutId),
      WithIdentifier(PaymentStepLog(CallTime + 20000, "checkout"), CheckoutId),
      PaymentStepLog(CallTime + 20000, "checkout"),
      SalesforceLog("07L2", CallTime + 5000, "", "",
                    "|FATAL_ERROR|Invalid payment method",
                    ParsedLog(<<"|FATAL_ERROR|Invalid payment method">>)),
      SalesforceLog("07L3", CallTime + 5 * 60 * 1000 + 100, "payment", "",
                    "|ERROR|payment " \o CheckoutId,
                    ParsedLog(<<"|ERROR|payment " \o CheckoutId>>)),
      SalesforceLog("07L4", CallTime + 6500, "Delivery", "",
                    "DeliveryService run", Null)>>

\* rule configurations handed to addRule
CustomRules ==
    <<RuleConfig(FullRule, <<RegExp("checkout", "i")>>, <<RegExp("payment", "i")>>,
                 5 * 60 * 1000, 10, <<>>),
      RuleConfig(FullRule, <<RegExp("checkout", "i")>>,
                 <<RegExp("Payment", ""), RegExp("method", "")>>,
                 40000, 0 - 30,
                 <<RuleExtractor("message", "response", "errors")>>),
      RuleConfig({"networkPatterns", "logPatterns"},
                 <<RegExp("orders", "")>>, <<RegExp("delivery", "i")>>,
                 0, 0, <<>>)>>

CustomRuleNames == <<"custom">>

\* the timeWindow arguments of correlateWithCheckout: the default and one minute
TimeWindows == <<15 * 60 * 1000, 60 * 1000>>

(***************************************************************************)
(* The state machines                                                      *)
(***************************************************************************)
NoCall == [done |-> FALSE]

NoCorrelation == [done |-> FALSE]

AnalyzerInit ==
    /\ callTypes = initializeDefaultTypes
    /\ registrations = 0
    /\ enhancedCall = NoCall

CorrelationInit ==
    /\ correlationRules = initializeDefaultRules
    /\ networkCalls = <<>>
    /\ salesforceLogs = <<>>
    /\ lastCorrelation = NoCorrelation

NoExtraction == [done |-> FALSE]

NoParse == [done |-> FALSE]

IdentifierInit == extraction = NoExtraction

ParserInit == logLines = <<>> /\ parsedLog = NoParse

\* SessionManager.constructor, with nothing in the storage yet
SessionInit ==
    /\ sessionManager = [sessions |-> <<>>, currentSessionId |-> Null,
                         storage |-> Undefined, issued |-> 0]
    /\ now = 1
    /\ heldSession = Null

NoMonitorCall == [handled |-> FALSE]

\* SFCCMonitor.constructor.  The three alias fields say which objects are one and the same:
\* currentSession and the manager's entry of its id, checkoutData and
\* currentSession.checkoutData, currentSession.checkoutData and the entry's checkoutData.
MonitorInit ==
    monitor = [currentCheckoutId |-> Null, currentSession |-> Null, checkoutData |-> {},
               checkoutStatus |-> Null, sessionManager |-> FALSE, pendingChecks |-> <<>>,
               aliasSession |-> FALSE, aliasData |-> FALSE, aliasSessionData |-> FALSE,
               handledCalls |-> 0, lastCall |-> NoMonitorCall, lastCarried |-> Null]

NoReturn == [returned |-> FALSE]

\* before `new SalesforceLogger()` / `new SalesforceAPI()`: the fields the constructors set
ClientInit ==
    client = [impl |-> "none", baseUrl |-> Null, sessionId |-> Null, isConnected |-> FALSE,
              syncInProgress |-> FALSE, connecting |-> <<>>, syncRuns |-> 0,
              started |-> 0, lastReturn |-> NoReturn]

Init ==
    /\ AnalyzerInit /\ CorrelationInit /\ IdentifierInit /\ ParserInit
    /\ SessionInit /\ MonitorInit /\ ClientInit

AddCallType(name, config) ==
    /\ registrations < MaxRegistrations
    /\ callTypes' = addCallType(callTypes, name, config)
    /\ registrations' = registrations + 1
    /\ enhancedCall' = NoCall
    /\ UNCHANGED <<correlationVars, identifierVars, parserVars, sessionVars, monitorVars, clientVars>>

AnalyzeCall(callData) ==
    /\ enhancedCall' = analyzeCall(callTypes, callData)
    /\ UNCHANGED <<callTypes, registrations>>
    /\ UNCHANGED <<correlationVars, identifierVars, parserVars, sessionVars, monitorVars, clientVars>>

NextAnalyzer ==
    \/ \E n \in 1..Len(CustomNames), c \in 1..Len(CustomConfigs) :
            AddCallType(CustomNames[n], CustomConfigs[c])
    \/ \E i \in 1..Len(AnalyzerCalls) : AnalyzeCall(AnalyzerCalls[i])

SpecAnalyzer == Init /\ [][NextAnalyzer]_vars

\* the position of a list's last element in its table, 0 for an empty list
LastIndex(list, table) ==
    IF list = <<>> THEN 0
    ELSE CHOOSE i \in 1..Len(table) : table[i] = list[Len(list)]

\* this.networkCalls.push(callData); the calls arrive in the table's order
HandleNetworkCall(i) ==
    /\ Len(networkCalls) < MaxCalls
    /\ i > LastIndex(networkCalls, CallTable)
    /\ networkCalls' = Append(networkCalls, CallTable[i])
    /\ lastCorrelation' = NoCorrelation
    /\ UNCHANGED <<correlationRules, salesforceLogs>>
    /\ UNCHANGED <<analyzerVars, identifierVars, parserVars, sessionVars, monitorVars, clientVars>>

\* a fetched log joins this.salesforceLogs; the logs arrive in the table's order
ReceiveLog(i) ==
    /\ Len(salesforceLogs) < MaxLogs
    /\ i > LastIndex(salesforceLogs, LogTable)
    /\ salesforceLogs' = Append(salesforceLogs, LogTable[i])
    /\ lastCorrelation' = NoCorrelation
    /\ UNCHANGED <<correlationRules, networkCalls>>
    /\ UNCHANGED <<analyzerVars, identifierVars, parserVars, sessionVars, monitorVars, clientVars>>

AddRule(name, config) ==
    /\ correlationRules' = addRule(correlationRules, name, config)
    /\ lastCorrelation' = NoCorrelation
    /\ UNCHANGED <<networkCalls, salesforceLogs>>
    /\ UNCHANGED <<analyzerVars, identifierVars, parserVars, sessionVars, monitorVars, clientVars>>

Correlated(engine, window, outcome) ==
    [done |-> TRUE, engine |-> engine, window |-> window,
     scored |-> outcome.scored, correlations |-> outcome.correlations]

\* CorrelationEngine.correlateAll of src/unnamed/part_001
CorrelateAll ==
    /\ lastCorrelation' =
          Correlated("monitor", timeWindow,
                     correlateAll(networkCalls, salesforceLogs))
    /\ UNCHANGED <<correlationRules, networkCalls, salesforceLogs>>
    /\ UNCHANGED <<analyzerVars, identifierVars, parserVars, sessionVars, monitorVars, clientVars>>

\* CorrelationEngine.correlateAll of src/analyzer-files/salesforce-api.js
RuleCorrelateAll ==
    /\ lastCorrelation' =
          Correlated("rules", 0,
                     ruleCorrelateAll(correlationRules, networkCalls,
                                      salesforceLogs))
    /\ UNCHANGED <<correlationRules, networkCalls, salesforceLogs>>
    /\ UNCHANGED <<analyzerVars, identifierVars, parserVars, sessionVars, monitorVars, clientVars>>

\* SalesforceAPI.correlateWithCheckout
CorrelateWithCheckout(window) ==
    /\ lastCorrelation' =
          Correlated("api", window,
                     correlateWithCheckout(networkCalls, salesforceLogs, window))
    /\ UNCHANGED <<correlationRules, networkCalls, salesforceLogs>>
    /\ UNCHANGED <<analyzerVars, identifierVars, parserVars, sessionVars, monitorVars, clientVars>>

NextCorrelation ==
    \/ \E i \in 1..Len(CallTable) : HandleNetworkCall(i)
    \/ \E i \in 1..Len(LogTable) : ReceiveLog(i)
    \/ \E n \in 1..Len(CustomRuleNames), c \in 1..Len(CustomRules) :
            AddRule(CustomRuleNames[n], CustomRules[c])
    \/ CorrelateAll
    \/ RuleCorrelateAll
    \/ \E w \in 1..Len(TimeWindows) : CorrelateWithCheckout(TimeWindows[w])

SpecCorrelation == Init /\ [][NextCorrelation]_vars

(***************************************************************************)
(* The checkout id extractors: inputs and state machine                    *)
(***************************************************************************)
\* a call as the interceptor hands it over; responseBody is not set
CapturedCall(url, requestBody, response) ==
    [method |-> "POST", url |-> url, status |-> 200, requestBody |-> requestBody,
     response |-> response, responseBody |-> Undefined]

IdentifierUrls ==
    <<"/webstores/0ZE1/checkouts/ABC123456789012",
      "/checkouts/ABC123456789012/payments",
      "/checkouts/ABC123456789012?fields=all",
      "/checkouts/active",
      "/checkouts/ABCDEFGHIJ0123456789",
      "/cart/items">>

IdentifierResponses ==
    <<Undefined,
      Obj("checkoutId" :> Str("RESP23456789012")),
      Obj("id" :> Str("0a6GENERIC00001")),
      Obj("cartSummary" :> Obj("cartId" :> Str("0a6CART00000001"))),
      Obj("data" :> Obj("checkoutId" :> Str("DATA23456789012"))),
      JsonText(Obj("checkoutId" :> Str("TEXT23456789012")))>>

IdentifierRequests ==
    <<Undefined,
      JsonText(Obj("checkoutId" :> Str("REQ123456789012"))),
      Str("checkoutId: 'RAW123456789012'"),
      JsonText(Obj("id" :> Str("0a6REQUESTID001"))),
      Obj("checkoutId" :> Str("OBJ123456789012"))>>

Extractors == <<"analyzer", "monitor">>

\* extractCheckoutId of the analyzer or of the monitor
ExtractCheckoutIdBy(extractor, callData) ==
    IF extractor = "analyzer" THEN extractCheckoutId(callData)
    ELSE monitorExtractCheckoutId(callData)

\* the call is built where it is handled, as the interceptor builds one object for each request
ExtractCheckoutId(extractor, url, requestBody, response) ==
    LET callData == CapturedCall(url, requestBody, response)
    IN  /\ extraction' = [done |-> TRUE, extractor |-> extractor, call |-> callData,
                          checkoutId |-> ExtractCheckoutIdBy(extractor, callData)]
        /\ UNCHANGED <<analyzerVars, correlationVars, parserVars, sessionVars, monitorVars, clientVars>>

NextIdentifier ==
    \E e \in 1..Len(Extractors), u \in 1..Len(IdentifierUrls),
       q \in 1..Len(IdentifierRequests), r \in 1..Len(IdentifierResponses) :
        ExtractCheckoutId(Extractors[e], IdentifierUrls[u], IdentifierRequests[q],
                          IdentifierResponses[r])

SpecIdentifier == Init /\ [][NextIdentifier]_vars


(***************************************************************************)
(* The log parsers: SalesforceLogger.parseLogContent (src/unnamed/part_000)*)
(* and SalesforceAPI.parseCommerceLogContent                               *)
(* (src/analyzer-files/salesforce-api.js)                                  *)
(***************************************************************************)
DigitAt(s, i) == i <= Len(s) /\ CharAt(s, i) \in Digits

\* /(\d{2}:\d{2}:\d{2}\.\d{3})/ matches at position i
TimestampAt(s, i) ==
    /\ i + 11 <= Len(s)
    /\ \A k \in {0, 1, 3, 4, 6, 7, 9, 10, 11} : DigitAt(s, i + k)
    /\ CharAt(s, i + 2) = ":"
    /\ CharAt(s, i + 5) = ":"
    /\ CharAt(s, i + 8) = "."

\* the least element of a set of positions, 0 for the empty set
Leftmost(positions) ==
    IF positions = {} THEN 0
    ELSE CHOOSE i \in positions : \A j \in positions : i <= j

extractTimestamp(line) ==
    LET i == Leftmost({k \in 1..Len(line) : TimestampAt(line, k)})
    IN  IF i = 0 THEN Null ELSE Str(SubSeq(line, i, i + 11))

WhiteSpace == {" ", "\t", "\n", "\r"}

\* String.prototype.trim
trim(s) ==
    LET inked == {i \in 1..Len(s) : CharAt(s, i) \notin WhiteSpace}
    IN  IF inked = {} THEN ""
        ELSE SubSeq(s, Leftmost(inked), CHOOSE i \in inked : \A j \in inked : j <= i)

\* line.match(/apex:\/\/([^/]+)\//): the capture of the leftmost match, "" when none
apexMatch(line) ==
    LET m == "apex://"
        from(i) == i + Len(m)
        nameLen(i) == RunLength(line, from(i), {"/"}, FALSE)
        i == Leftmost({k \in 1..Len(line) :
                          /\ from(k) - 1 <= Len(line)
                          /\ SubSeq(line, k, from(k) - 1) = m
                          /\ nameLen(k) >= 1
                          /\ from(k) + nameLen(k) <= Len(line)})
    IN  IF i = 0 THEN "" ELSE SubSeq(line, from(i), from(i) + nameLen(i) - 1)

\* line.match(/\|([^|]+@[^|]+)\|/): the capture of the leftmost match, "" when none
userMatch(line) ==
    LET segLen(i) == RunLength(line, i + 1, {"|"}, FALSE)
        i == Leftmost({k \in 1..Len(line) :
                          /\ CharAt(line, k) = "|"
                          /\ k + segLen(k) + 1 <= Len(line)
                          /\ \E p \in (k + 2)..(k + segLen(k) - 1) : CharAt(line, p) = "@"})
    IN  IF i = 0 THEN "" ELSE SubSeq(line, i + 1, i + segLen(i))

DigitValue ==
    [c \in Digits |->
        CASE c = "0" -> 0 [] c = "1" -> 1 [] c = "2" -> 2 [] c = "3" -> 3 [] c = "4" -> 4
          [] c = "5" -> 5 [] c = "6" -> 6 [] c = "7" -> 7 [] c = "8" -> 8 [] c = "9" -> 9]

\* Number.parseInt of a string of digits
RECURSIVE parseInt(_)
parseInt(digits) ==
    IF digits = "" THEN 0
    ELSE 10 * parseInt(SubSeq(digits, 1, Len(digits) - 1))
            + DigitValue[CharAt(digits, Len(digits))]

\* line.match(/(\d+)/): the leftmost run of digits, "" when the line has none
digitsMatch(line) ==
    LET i == Leftmost({k \in 1..Len(line) : DigitAt(line, k)})
    IN  IF i = 0 THEN "" ELSE SubSeq(line, i, i + RunLength(line, i, Digits, TRUE) - 1)

IsErrorLine(line) ==
    \/ includes(line, "|FATAL_ERROR|")
    \/ includes(line, "|ERROR|")
    \/ includes(line, "|EXCEPTION_THROWN|")

IsWarningLine(line) == ~IsErrorLine(line) /\ includes(line, "|WARN|")

IsCalloutLine(line) ==
    includes(line, "|CALLOUT_REQUEST|") \/ includes(line, "|CALLOUT_RESPONSE|")

IsApiLine(line) ==
    \/ includes(line, "/webruntime/")
    \/ includes(line, "/commerce/")
    \/ includes(line, "/services/data/")

\* the entries pushed for the lines hit, in their order; the text is the line, trimmed or not
Entries(hit, field, type, trimmed) ==
    Arr([i \in 1..Len(hit) |->
            Obj("timestamp" :> extractTimestamp(hit[i])
                @@ field :> Str(IF trimmed THEN trim(hit[i]) ELSE hit[i])
                @@ "type" :> Str(type))])

\* the value of a field when only the first of the values assigned to it counts
FirstAssigned(values, initial) ==
    IF values = <<>> THEN initial ELSE values[1]

\* the value a field holds after the loop that assigned it these values in turn
LastAssigned(values, initial) ==
    IF values = <<>> THEN initial ELSE values[Len(values)]

\* the names assigned to parsed.apexClass, line by line
ApexClasses(lines) ==
    LET hit == SelectSeq(lines, LAMBDA line :
                   includes(line, "[EXTERNAL]|apex://") /\ apexMatch(line) # "")
    IN  [i \in 1..Len(hit) |-> Str(apexMatch(hit[i]))]

\* the users assigned to parsed.userInfo, line by line
UserInfos(lines) ==
    LET hit == SelectSeq(lines, LAMBDA line :
                   includes(line, "|USER_INFO|") /\ userMatch(line) # "")
    IN  [i \in 1..Len(hit) |-> Str(userMatch(hit[i]))]

\* the lines that carry a counter's label
Labelled(lines, label) == SelectSeq(lines, LAMBDA line : includes(line, label))

\* the numbers the logger assigns to a counter: if (match) ... = Number.parseInt(match[1])
LoggerCounts(lines, label) ==
    LET hit == SelectSeq(Labelled(lines, label), LAMBDA line : digitsMatch(line) # "")
    IN  [i \in 1..Len(hit) |-> Num(parseInt(digitsMatch(hit[i])))]

\* the numbers the commerce parser assigns: Number.parseInt(line.match(/\d+/)?.[0] || 0)
CommerceCounts(lines, label) ==
    LET hit == Labelled(lines, label)
    IN  [i \in 1..Len(hit) |-> Num(parseInt(digitsMatch(hit[i])))]

\* line.toLowerCase().includes(keyword)
HasKeywordAnyCase(line, keyword) == includes(toLowerCase(line), keyword)

\* line.includes("checkout") || line.includes("Checkout")
HasKeywordTwoCases(line, keyword) ==
    \/ includes(line, keyword)
    \/ includes(line, toUpperCase(CharAt(keyword, 1)) \o SubSeq(keyword, 2, Len(keyword)))

\* SalesforceLogger.parseLogContent
parseLogContent(logBody) ==
    IF logBody = "" THEN Null
    ELSE LET lines == split(logBody, "\n")
             events(keyword) ==
                 Entries(SelectSeq(lines, LAMBDA line : HasKeywordAnyCase(line, keyword)),
                         "event", keyword, TRUE)
         IN  Obj("errors" :> Entries(SelectSeq(lines, IsErrorLine), "message", "error", TRUE)
                 @@ "warnings" :>
                        Entries(SelectSeq(lines, IsWarningLine), "message", "warning", TRUE)
                 @@ "checkoutEvents" :> events("checkout")
                 @@ "apiCalls" :> Entries(SelectSeq(lines, IsApiLine), "call", "api", TRUE)
                 @@ "paymentEvents" :> events("payment")
                 @@ "cartEvents" :> events("cart")
                 @@ "webserviceCalls" :>
                        Entries(SelectSeq(lines, IsCalloutLine), "callout", "callout", TRUE)
                 @@ "apexClass" :> LastAssigned(ApexClasses(lines), Null)
                 @@ "userInfo" :> LastAssigned(UserInfos(lines), Null)
                 @@ "performance" :>
                        Obj("totalTime" :> Num(0)
                            @@ "cpuTime" :>
                                   LastAssigned(LoggerCounts(lines, "Maximum CPU time:"), Num(0))
                            @@ "heapSize" :>
                                   LastAssigned(LoggerCounts(lines, "Maximum heap size:"), Num(0))
                            @@ "soqlQueries" :>
                                   LastAssigned(LoggerCounts(lines, "Number of SOQL queries:"),
                                                Num(0))
                            @@ "dmlStatements" :>
                                   LastAssigned(LoggerCounts(lines, "Number of DML statements:"),
                                                Num(0))))

\* a property that exists only once it has been assigned
AssignedProperty(name, values) ==
    IF values = <<>> THEN <<>> ELSE name :> LastAssigned(values, Undefined)

\* SalesforceAPI.parseCommerceLogContent
parseCommerceLogContent(logBody) ==
    IF logBody = "" THEN Null
    ELSE LET lines == split(logBody, "\n")
             events(keyword) ==
                 Entries(SelectSeq(lines, LAMBDA line : HasKeywordTwoCases(line, keyword)),
                         "event", keyword, FALSE)
         IN  Obj("errors" :> Entries(SelectSeq(lines, IsErrorLine), "message", "error", FALSE)
                 @@ "warnings" :>
                        Entries(SelectSeq(lines, IsWarningLine), "message", "warning", FALSE)
                 @@ "checkoutEvents" :> events("checkout")
                 @@ "apiCalls" :> Entries(SelectSeq(lines, IsApiLine), "call", "api", FALSE)
                 @@ "paymentEvents" :> events("payment")
                 @@ "cartEvents" :> events("cart")
                 @@ "webserviceCalls" :>
                        Entries(SelectSeq(lines, IsCalloutLine), "callout", "callout", FALSE)
                 @@ "apexClass" :> LastAssigned(ApexClasses(lines), Null)
                 @@ "userInfo" :> LastAssigned(UserInfos(lines), Null)
                 @@ "performance" :>
                        Obj("totalTime" :> Num(0)
                            @@ "cpuTime" :>
                                   LastAssigned(CommerceCounts(lines, "Maximum CPU time:"), Num(0))
                            @@ "heapSize" :>
                                   LastAssigned(CommerceCounts(lines, "Maximum heap size:"),
                                                Num(0))
                            @@ AssignedProperty("soqlQueries",
                                   CommerceCounts(lines, "Number of SOQL queries:"))
                            @@ AssignedProperty("dmlStatements",
                                   CommerceCounts(lines, "Number of DML statements:"))))

\* the match results whose capture is read when the match is not tested first
CapturesReadUnguarded(matches) == matches

\* the match results whose capture is read: if (match) ... match[1]
CapturesRead(matches) == SelectSeq(matches, LAMBDA m : m # "")

\* the results of the regular expressions tried on the lines that carry a label
ApexClassMatches(lines) ==
    LET hit == Labelled(lines, "[EXTERNAL]|apex://")
    IN  [i \in 1..Len(hit) |-> apexMatch(hit[i])]

UserInfoMatches(lines) ==
    LET hit == Labelled(lines, "|USER_INFO|")
    IN  [i \in 1..Len(hit) |-> userMatch(hit[i])]

CounterMatches(lines) ==
    LET hit == SelectSeq(lines, LAMBDA line :
                   \/ includes(line, "Number of SOQL queries:")
                   \/ includes(line, "Number of DML statements:")
                   \/ includes(line, "Maximum CPU time:")
                   \/ includes(line, "Maximum heap size:"))
    IN  [i \in 1..Len(hit) |-> digitsMatch(hit[i])]

\* reading [1] of a null match is a TypeError
ReadsNull(matches) ==
    \E i \in 1..Len(CapturesRead(matches)) : CapturesRead(matches)[i] = ""

\* SalesforceLogger.parseLogContent throws
LoggerRaises(logBody) ==
    /\ logBody # ""
    /\ LET lines == split(logBody, "\n")
       IN  ReadsNull(ApexClassMatches(lines) \o UserInfoMatches(lines) \o CounterMatches(lines))

\* SalesforceAPI.parseCommerceLogContent throws; its counters are read with ?.
CommerceRaises(logBody) ==
    /\ logBody # ""
    /\ LET lines == split(logBody, "\n")
       IN  ReadsNull(ApexClassMatches(lines) \o UserInfoMatches(lines))

(***************************************************************************)
(* The log parsers: inputs and state machine                               *)
(***************************************************************************)
MaxLines == 2

LineTable ==
    <<"12:00:01.123|[EXTERNAL]|apex://CheckoutCtl/ACTION",
      "12:00:02.456|[EXTERNAL]|apex://PaymentSvc/run",
      "CHECKOUT step begins",
      " cArT updated ",
      "12:00:03.000|FATAL_ERROR|Invalid payment method",
      "|USER_INFO|[EXTERNAL]|005xx|shopper@example.com|GMT",
      "Number of SOQL queries: 7 out of 100",
      "12:00:04.000|WARN|Payment retry",
      "|USER_INFO|[EXTERNAL]|apex://",
      "Number of SOQL queries: none">>

\* the log body made of the lines: lines.join("\n")
RECURSIVE LogBody(_)
LogBody(lines) ==
    IF lines = <<>> THEN ""
    ELSE IF Len(lines) = 1 THEN lines[1]
    ELSE LogBody(SubSeq(lines, 1, Len(lines) - 1)) \o "\n" \o lines[Len(lines)]

\* one more line of the body arrives
ReceiveLine(i) ==
    /\ Len(logLines) < MaxLines
    /\ logLines' = Append(logLines, LineTable[i])
    /\ parsedLog' = NoParse
    /\ UNCHANGED <<analyzerVars, correlationVars, identifierVars, sessionVars, monitorVars, clientVars>>

Parsed(parser, logBody, raised, parsed) ==
    [done |-> TRUE, parser |-> parser, body |-> logBody, raised |-> raised,
     parsed |-> IF raised THEN Undefined ELSE parsed]

ParseLogContent ==
    /\ parsedLog' = Parsed("logger", LogBody(logLines), LoggerRaises(LogBody(logLines)),
                           parseLogContent(LogBody(logLines)))
    /\ UNCHANGED <<logLines, analyzerVars, correlationVars, identifierVars, sessionVars, monitorVars, clientVars>>

ParseCommerceLogContent ==
    /\ parsedLog' = Parsed("commerce", LogBody(logLines), CommerceRaises(LogBody(logLines)),
                           parseCommerceLogContent(LogBody(logLines)))
    /\ UNCHANGED <<logLines, analyzerVars, correlationVars, identifierVars, sessionVars, monitorVars, clientVars>>

NextParser ==
    \/ \E i \in 1..Len(LineTable) : ReceiveLine(i)
    \/ ParseLogContent
    \/ ParseCommerceLogContent

SpecParser == Init /\ [][NextParser]_vars

(***************************************************************************)
(* SessionManager (session-manager.js).  A session is kept with the fields *)
(* the manager and the monitor read: id, checkoutId, startTime, endTime    *)
(* and checkoutData.  sessionManager.storage is what chrome.storage.local  *)
(* (or localStorage) holds under storageKey, sessionManager.issued counts  *)
(* the ids generateSessionId has given out.                                *)
(***************************************************************************)
\* this.maxSessions; 50 in the source, kept small here so that the limit is reached
maxSessions == 3

\* generateSessionId: `session_${Date.now()}_${random}`, a fresh id at every call
generateSessionId(sm) == Num(sm.issued + 1)

\* the object createSession builds from sessionData
NewSession(sm, sessionData, time) ==
    [id |-> generateSessionId(sm),
     checkoutId |-> OrElse(sessionData.checkoutId, Null),
     startTime |-> time,
     endTime |-> Null,
     checkoutData |-> sessionData.checkoutData]

\* this.sessions.slice(0, this.maxSessions) when the list is longer than the limit
LimitSessions(sessions) ==
    IF Len(sessions) > maxSessions THEN SubSeq(sessions, 1, maxSessions) ELSE sessions

saveSessions(sm) == [sm EXCEPT !.storage = Arr(sm.sessions)]

\* loadSessions: the stored list replaces the one in memory when there is one
loadSessions(sm) ==
    IF Truthy(sm.storage) THEN [sm EXCEPT !.sessions = sm.storage.v] ELSE sm

\* this.sessions.findIndex(test): the first index that passes, 0 for none
FindIndex(sessions, passes) ==
    IF passes = {} THEN 0 ELSE CHOOSE i \in passes : \A j \in passes : i <= j

IndexOfId(sessions, sessionId) ==
    FindIndex(sessions, {i \in 1..Len(sessions) : sessions[i].id = sessionId})

\* findSessionByCheckoutId, as the index of the session found, 0 for none
findSessionByCheckoutId(sm, checkoutId) ==
    IF ~Truthy(checkoutId) THEN 0
    ELSE FindIndex(sm.sessions,
                   {i \in 1..Len(sm.sessions) : sm.sessions[i].checkoutId = checkoutId})

createSession(sm, sessionData, time) ==
    saveSessions([sm EXCEPT !.sessions = LimitSessions(<<NewSession(sm, sessionData, time)>> \o @),
                            !.currentSessionId = generateSessionId(sm),
                            !.issued = @ + 1])

\* the index of the active session createNewSession returns instead of creating one, 0 for none
ExistingActive(sm, checkoutId) ==
    LET k == findSessionByCheckoutId(sm, checkoutId)
    IN  IF k # 0 /\ ~Truthy(sm.sessions[k].endTime) THEN k ELSE 0

createNewSession(sm, sessionData, time) ==
    IF Truthy(sessionData.checkoutId) /\ ExistingActive(sm, sessionData.checkoutId) # 0
    THEN [sm EXCEPT !.currentSessionId =
                        sm.sessions[ExistingActive(sm, sessionData.checkoutId)].id]
    ELSE createSession(sm, sessionData, time)

\* the session createNewSession returns
createNewSessionResult(sm, sessionData, time) ==
    IF Truthy(sessionData.checkoutId) /\ ExistingActive(sm, sessionData.checkoutId) # 0
    THEN sm.sessions[ExistingActive(sm, sessionData.checkoutId)]
    ELSE NewSession(sm, sessionData, time)

loadSession(sm, sessionId) ==
    IF IndexOfId(sm.sessions, sessionId) # 0
    THEN [sm EXCEPT !.currentSessionId = sessionId]
    ELSE sm

\* the copy loadSession returns, null when the id is not in the list
loadSessionResult(sm, sessionId) ==
    IF IndexOfId(sm.sessions, sessionId) # 0
    THEN sm.sessions[IndexOfId(sm.sessions, sessionId)]
    ELSE Null

saveSession(sm, sessionData) ==
    LET index == IndexOfId(sm.sessions, sessionData.id)
    IN  saveSessions([sm EXCEPT !.sessions =
                         LimitSessions(IF index # 0 THEN [@ EXCEPT ![index] = sessionData]
                                       ELSE <<sessionData>> \o @)])

deleteSession(sm, sessionId) ==
    LET index == IndexOfId(sm.sessions, sessionId)
    IN  IF index = 0 THEN sm
        ELSE saveSessions(
                 [sm EXCEPT !.sessions = SubSeq(@, 1, index - 1) \o SubSeq(@, index + 1, Len(@)),
                            !.currentSessionId = IF @ = sessionId THEN Null ELSE @])

clearAllSessions(sm) ==
    saveSessions([sm EXCEPT !.sessions = <<>>, !.currentSessionId = Null])

getCurrentSession(sm) ==
    IF ~Truthy(sm.currentSessionId) THEN Null ELSE loadSessionResult(sm, sm.currentSessionId)

\* importSession of the export { session, exportTime, version }
importSession(sm, session) ==
    saveSessions([sm EXCEPT !.sessions = <<[session EXCEPT !.id = generateSessionId(sm)]>> \o @,
                            !.issued = @ + 1])

cleanupOldSessions(sm, maxAge, time) ==
    LET kept == SelectSeq(sm.sessions,
                          LAMBDA session : \/ session.startTime > time - maxAge
                                           \/ ~Truthy(session.endTime))
    IN  IF Len(kept) < Len(sm.sessions)
        THEN saveSessions([sm EXCEPT !.sessions = kept])
        ELSE sm

(***************************************************************************)
(* SessionManager: its operations called one after the other               *)
(***************************************************************************)
MaxIssued == 4

MaxTime == 2

CheckoutIdX == "0a6XX0000000001"

CheckoutIdY == "0a6YY0000000002"

\* what createSession and createNewSession are given
SessionDataInputs ==
    {[checkoutId |-> c, checkoutData |-> {}] : c \in {Null, Str(CheckoutIdX)}}

\* the ages cleanupOldSessions is asked to keep
MaxAges == {1}

Tick ==
    /\ now < MaxTime
    /\ now' = now + 1
    /\ UNCHANGED <<sessionManager, heldSession>>
    /\ UNCHANGED <<analyzerVars, correlationVars, identifierVars, parserVars,
                   monitorVars, clientVars>>

\* an operation of the manager: its new state and the session it hands to the caller
SessionStep(sm, result) ==
    /\ sessionManager' = sm
    /\ heldSession' = result
    /\ UNCHANGED now
    /\ UNCHANGED <<analyzerVars, correlationVars, identifierVars, parserVars,
                   monitorVars, clientVars>>

CreateSession(sessionData) ==
    /\ sessionManager.issued < MaxIssued
    /\ SessionStep(createSession(sessionManager, sessionData, now),
                   NewSession(sessionManager, sessionData, now))

CreateNewSession(sessionData) ==
    /\ sessionManager.issued < MaxIssued
    /\ SessionStep(createNewSession(sessionManager, sessionData, now),
                   createNewSessionResult(sessionManager, sessionData, now))

LoadSession(sessionId) ==
    SessionStep(loadSession(sessionManager, sessionId),
                loadSessionResult(sessionManager, sessionId))

\* the caller saves the session it holds, after ending it or as it is
SaveSession(ended) ==
    /\ heldSession # Null
    /\ LET sessionData == IF ended THEN [heldSession EXCEPT !.endTime = Num(now)]
                          ELSE heldSession
       IN  SessionStep(saveSession(sessionManager, sessionData), sessionData)

DeleteSession(sessionId) ==
    SessionStep(deleteSession(sessionManager, sessionId), heldSession)

ClearAllSessions == SessionStep(clearAllSessions(sessionManager), heldSession)

\* the caller imports the export of the session it holds
ImportSession ==
    /\ heldSession # Null
    /\ sessionManager.issued < MaxIssued
    /\ SessionStep(importSession(sessionManager, heldSession),
                   [heldSession EXCEPT !.id = generateSessionId(sessionManager)])

CleanupOldSessions(maxAge) ==
    SessionStep(cleanupOldSessions(sessionManager, maxAge, now), heldSession)

LoadSessions == SessionStep(loadSessions(sessionManager), heldSession)

IssuedIds == {Num(n) : n \in 1..sessionManager.issued}

NextSessions ==
    \/ Tick
    \/ \E sessionData \in SessionDataInputs : CreateSession(sessionData)
    \/ \E sessionData \in SessionDataInputs : CreateNewSession(sessionData)
    \/ \E sessionId \in IssuedIds : LoadSession(sessionId)
    \/ \E ended \in BOOLEAN : SaveSession(ended)
    \/ \E sessionId \in IssuedIds : DeleteSession(sessionId)
    \/ ClearAllSessions
    \/ ImportSession
    \/ \E maxAge \in MaxAges : CleanupOldSessions(maxAge)
    \/ LoadSessions

SpecSessions == Init /\ [][NextSessions]_vars

(***************************************************************************)
(* The Salesforce clients: SalesforceLogger (part_000), SalesforceAPI      *)
(* (salesforce-api.js) and the copy of the client embedded in              *)
(* test-salesforce-integration.js.  client.connecting holds the connect    *)
(* calls that wait for their fetch, client.syncRuns counts the syncLogs    *)
(* calls that are past their guards and have not reached `finally`.        *)
(***************************************************************************)
Implementations == {"logger", "api", "embedded"}

\* instanceUrl.endsWith("/") ? instanceUrl.slice(0, -1) : instanceUrl
NormalizedUrl(instanceUrl) ==
    IF Len(instanceUrl) > 0 /\ CharAt(instanceUrl, Len(instanceUrl)) = "/"
    THEN SubSeq(instanceUrl, 1, Len(instanceUrl) - 1)
    ELSE instanceUrl

\* connect up to its first await: the fields are set before the request is made
connectStart(c, instanceUrl, sessionId) ==
    [c EXCEPT !.baseUrl = Str(NormalizedUrl(instanceUrl)), !.sessionId = Str(sessionId)]

\* the catch block of connect: SalesforceAPI resets the connection state, the others do not
connectFailed(c) ==
    IF c.impl = "api"
    THEN [c EXCEPT !.isConnected = FALSE, !.baseUrl = Null, !.sessionId = Null]
    ELSE [c EXCEPT !.isConnected = FALSE]

connectSucceeded(c) == [c EXCEPT !.isConnected = TRUE]

\* disconnect
disconnect(c) == [c EXCEPT !.baseUrl = Null, !.sessionId = Null, !.isConnected = FALSE]

\* syncLogs without its finally block
syncLogsNoFinally(c) == c

\* the finally block of syncLogs
syncLogsFinally(c) == [c EXCEPT !.syncInProgress = FALSE]

\* makeRequest answered 401: `this.isConnected = false` before it throws
sessionExpired(c) == [c EXCEPT !.isConnected = FALSE]

MaxClientCalls == 3

InstanceUrls == {"https://test.salesforce.com/", "https://test.salesforce.com", "invalid-url", ""}

ClientStep(c) ==
    /\ client' = c
    /\ UNCHANGED <<analyzerVars, correlationVars, identifierVars, parserVars,
                   sessionVars, monitorVars>>

Construct(impl) ==
    /\ client.impl = "none"
    /\ ClientStep([client EXCEPT !.impl = impl])

\* connect is called and runs to its first await
ConnectCalled(instanceUrl) ==
    /\ client.impl # "none"
    /\ client.started < MaxClientCalls
    /\ ClientStep([connectStart(client, instanceUrl, "test-session") EXCEPT
                      !.connecting = Append(@, instanceUrl),
                      !.started = @ + 1,
                      !.lastReturn = NoReturn])

\* the requests of a waiting connect call are answered and the call returns
ConnectReturns(i, ok) ==
    /\ i \in 1..Len(client.connecting)
    /\ LET waiting == client.connecting
           c == IF ok THEN connectSucceeded(client) ELSE connectFailed(client)
       IN  ClientStep([c EXCEPT
                          !.connecting = SubSeq(waiting, 1, i - 1)
                                             \o SubSeq(waiting, i + 1, Len(waiting)),
                          !.lastReturn = [returned |-> TRUE, op |-> "connect",
                                          instanceUrl |-> waiting[i], success |-> ok]])

Disconnect ==
    /\ client.impl # "none"
    /\ ClientStep([disconnect(client) EXCEPT !.lastReturn = NoReturn])

SyncReturn(duringRun, success, message) ==
    [returned |-> TRUE, op |-> "syncLogs", duringRun |-> duringRun,
     success |-> success, message |-> message]

\* syncLogs is called: it returns at one of its guards or starts a run and awaits the query
SyncLogsCalled ==
    /\ client.impl = "logger"
    /\ client.started < MaxClientCalls
    /\ LET c == [client EXCEPT !.started = @ + 1]
           duringRun == client.syncRuns > 0
       IN  IF client.syncInProgress
           THEN ClientStep([c EXCEPT !.lastReturn =
                               SyncReturn(duringRun, FALSE, "Sync already in progress")])
           ELSE IF ~client.isConnected
           THEN ClientStep([c EXCEPT !.lastReturn =
                               SyncReturn(duringRun, FALSE, "Not connected to Salesforce")])
           ELSE ClientStep([c EXCEPT !.syncInProgress = TRUE,
                                     !.syncRuns = @ + 1,
                                     !.lastReturn = NoReturn])

SyncOutcomes == {"success", "error", "expired"}

\* the run's requests are answered: it returns through try or catch, then finally
SyncLogsReturns(outcome) ==
    /\ client.syncRuns > 0
    /\ LET c == IF outcome = "expired" THEN sessionExpired(client) ELSE client
       IN  ClientStep([syncLogsFinally(c) EXCEPT
                          !.syncRuns = @ - 1,
                          !.lastReturn = SyncReturn(FALSE, outcome = "success", "")])

NextClient ==
    \/ \E impl \in Implementations : Construct(impl)
    \/ \E instanceUrl \in InstanceUrls : ConnectCalled(instanceUrl)
    \/ \E i \in 1..MaxClientCalls, ok \in BOOLEAN : ConnectReturns(i, ok)
    \/ Disconnect
    \/ SyncLogsCalled
    \/ \E outcome \in SyncOutcomes : SyncLogsReturns(outcome)

SpecClient == Init /\ [][NextClient]_vars

(***************************************************************************)
(* SFCCMonitor (part_001): sessions and checkout progress.  The handlers   *)
(* are operators on the pair w = [m |-> the monitor, sm |-> the session    *)
(* manager].  The lists a session carries (networkCalls, errors, logs,     *)
(* correlations) are not kept: no handler below reads them.                *)
(***************************************************************************)
World(m, sm) == [m |-> m, sm |-> sm]

\* the manager's list after a write to the object the monitor holds as currentSession
EntryWritten(w, session, aliased) ==
    LET index == IndexOfId(w.sm.sessions, session.id)
    IN  IF aliased /\ index # 0
        THEN [w.sm EXCEPT !.sessions[index] = session]
        ELSE w.sm

\* this.currentSession.<field> = value, seen by the manager when the object is its entry
WriteCurrentSession(w, session) ==
    World([w.m EXCEPT !.currentSession = session],
          EntryWritten(w, session, w.m.aliasSession))

\* saveCurrentSession
saveCurrentSession(w) ==
    IF w.m.currentSession = Null \/ ~w.m.sessionManager THEN w
    ELSE LET session == [w.m.currentSession EXCEPT !.checkoutData = w.m.checkoutData,
                                                   !.checkoutId = w.m.currentCheckoutId]
             found == IndexOfId(w.sm.sessions, session.id) # 0
         IN  World([w.m EXCEPT !.currentSession = session,
                               !.aliasSession = ~found,
                               !.aliasData = FALSE,
                               !.aliasSessionData = TRUE],
                   saveSession(w.sm, session))

\* SFCCMonitor.loadSession
monitorLoadSession(w, sessionId) ==
    IF ~w.m.sessionManager \/ loadSessionResult(w.sm, sessionId) = Null THEN w
    ELSE LET session == loadSessionResult(w.sm, sessionId)
             loaded == World(w.m, loadSession(w.sm, sessionId))
             saved == IF w.m.currentSession # Null /\ w.m.currentSession.id # sessionId
                      THEN saveCurrentSession(loaded)
                      ELSE loaded
         IN  World([saved.m EXCEPT !.currentSession = session,
                                   !.checkoutData = session.checkoutData,
                                   !.currentCheckoutId = session.checkoutId,
                                   !.aliasSession = FALSE,
                                   !.aliasData = TRUE,
                                   !.aliasSessionData = TRUE],
                   saved.sm)

\* what the monitor hands to createNewSession
MonitorSessionData(m, checkoutId) == [checkoutId |-> checkoutId, checkoutData |-> m.checkoutData]

\* this.currentSession = this.sessionManager.createNewSession(sessionData); when the manager
\* returns the entry the monitor already holds a copy of, checkoutData stays the same object
CurrentSessionCreated(w, sessionData, time) ==
    LET session == createNewSessionResult(w.sm, sessionData, time)
        held == /\ w.m.currentSession # Null
                /\ w.m.currentSession.id = session.id
                /\ w.m.aliasSession \/ w.m.aliasSessionData
    IN  World([w.m EXCEPT !.currentSession = session,
                          !.aliasSession = TRUE,
                          !.aliasData = @ /\ held,
                          !.aliasSessionData = TRUE],
              createNewSession(w.sm, sessionData, time))

createNewSessionWithCheckoutId(w, checkoutId, time) ==
    IF ~w.m.sessionManager THEN w
    ELSE IF ExistingActive(w.sm, checkoutId) # 0
    THEN monitorLoadSession(w, w.sm.sessions[ExistingActive(w.sm, checkoutId)].id)
    ELSE CurrentSessionCreated(w, MonitorSessionData(w.m, checkoutId), time)

\* SFCCMonitor.createNewSession, the button of the sessions tab
monitorCreateNewSession(w, time) ==
    IF ~w.m.sessionManager THEN w
    ELSE CurrentSessionCreated(w, MonitorSessionData(w.m, w.m.currentCheckoutId), time)

\* the callback of handleCheckoutIdChange when no active session was found
CheckoutIdAdopted(w, newCheckoutId) ==
    LET m == [w.m EXCEPT !.currentCheckoutId = newCheckoutId]
    IN  IF m.currentSession = Null THEN World(m, w.sm)
        ELSE WriteCurrentSession(World(m, w.sm),
                                 [m.currentSession EXCEPT !.checkoutId = newCheckoutId])

\* checkForExistingSession after its await, and the callback of handleCheckoutIdChange
checkForExistingSession(w, checkoutId) ==
    LET reloaded == Truthy(w.sm.storage)
        fresh == World([w.m EXCEPT !.aliasSession = @ /\ ~reloaded,
                                  !.aliasSessionData = @ /\ ~reloaded],
                       loadSessions(w.sm))
    IN  IF ExistingActive(fresh.sm, checkoutId) # 0
        THEN monitorLoadSession(fresh,
                                fresh.sm.sessions[ExistingActive(fresh.sm, checkoutId)].id)
        ELSE CheckoutIdAdopted(fresh, checkoutId)

\* endCurrentSession
endCurrentSession(w, time) ==
    IF w.m.currentSession = Null THEN w
    ELSE LET ended == WriteCurrentSession(w, [w.m.currentSession EXCEPT !.endTime = Num(time)])
             saved == saveCurrentSession(ended)
         IN  World([saved.m EXCEPT !.currentSession = Null,
                                   !.aliasSession = FALSE,
                                   !.aliasData = FALSE,
                                   !.aliasSessionData = FALSE],
                   saved.sm)

\* SFCCMonitor.deleteSession
monitorDeleteSession(w, sessionId) ==
    IF ~w.m.sessionManager THEN w
    ELSE LET current == w.m.currentSession # Null /\ w.m.currentSession.id = sessionId
         IN  World([w.m EXCEPT !.currentSession = IF current THEN Null ELSE @,
                               !.aliasSession = @ /\ ~current,
                               !.aliasData = @ /\ ~current,
                               !.aliasSessionData = @ /\ ~current],
                   deleteSession(w.sm, sessionId))

\* SFCCMonitor.clearAllSessions, confirmed
monitorClearAllSessions(w) ==
    IF ~w.m.sessionManager THEN w
    ELSE World([w.m EXCEPT !.currentSession = Null,
                           !.aliasSession = FALSE,
                           !.aliasData = FALSE,
                           !.aliasSessionData = FALSE],
               clearAllSessions(w.sm))

\* this.requirements
Requirements ==
    <<[key |-> "shippingAddress", required |-> TRUE],
      [key |-> "deliveryMethod", required |-> TRUE],
      [key |-> "inventory", required |-> FALSE],
      [key |-> "taxes", required |-> FALSE],
      [key |-> "billingAddress", required |-> TRUE],
      [key |-> "payment", required |-> TRUE]>>

IncludesAny(url, parts) == \E part \in parts : includes(url, part)

\* the requirements a successful call marks by its URL
MarkedByUrl(url) ==
    (IF IncludesAny(url, {"/addresses", "/delivery-address", "/shipping-address"})
     THEN {"shippingAddress"} ELSE {})
    \cup (IF includes(url, "/billing-address") THEN {"billingAddress"} ELSE {})
    \cup (IF IncludesAny(url, {"/delivery-methods", "/shipping-methods"})
          THEN {"deliveryMethod"} ELSE {})
    \cup (IF IncludesAny(url, {"/inventory", "/cart-items"}) THEN {"inventory"} ELSE {})
    \cup (IF IncludesAny(url, {"/taxes", "/tax"}) THEN {"taxes"} ELSE {})
    \cup (IF IncludesAny(url, {"/payments", "/payment"}) THEN {"payment"} ELSE {})

HasAny(parsedBody, keys) == \E key \in keys : Truthy(Get(parsedBody, key))

\* the requirements the request body of an /active call marks; a body that JSON.parse
\* rejects marks none
MarkedByActiveBody(url, requestBody) ==
    IF ~(includes(url, "/active") /\ Truthy(requestBody)) \/ requestBody.t = "str" THEN {}
    ELSE LET parsedBody == ParsedOrKept(requestBody)
         IN  (IF HasAny(parsedBody, {"deliveryMethodId"}) THEN {"deliveryMethod"} ELSE {})
             \cup (IF HasAny(parsedBody, {"deliveryAddress", "shippingAddress"})
                   THEN {"shippingAddress"} ELSE {})
             \cup (IF HasAny(parsedBody, {"billingAddress"}) THEN {"billingAddress"} ELSE {})
             \cup (IF HasAny(parsedBody, {"paymentMethodId", "paymentDetails"})
                   THEN {"payment"} ELSE {})

\* the status updateCheckoutData derives from the marked requirements
StatusOf(checkoutData) ==
    LET completedRequirements ==
            Cardinality({i \in 1..Len(Requirements) : Requirements[i].key \in checkoutData})
        totalRequirements ==
            Cardinality({i \in 1..Len(Requirements) : Requirements[i].required})
    IN  IF completedRequirements = 0 THEN Str("Started")
        ELSE IF completedRequirements < totalRequirements THEN Str("In Progress")
        ELSE Str("Ready")

\* updateCheckoutData; this.checkoutData is written in place, so the session objects that
\* hold the same object see the marks
updateCheckoutData(w, callData) ==
    IF callData.status < 200 \/ callData.status >= 300 THEN w
    ELSE LET url == toLowerCase(callData.url)
             data == w.m.checkoutData \cup MarkedByUrl(url)
                         \cup MarkedByActiveBody(url, callData.requestBody)
             m == [w.m EXCEPT !.checkoutData = data, !.checkoutStatus = StatusOf(data)]
         IN  IF m.currentSession # Null /\ m.aliasData
             THEN LET session == [m.currentSession EXCEPT !.checkoutData = data]
                  IN  World([m EXCEPT !.currentSession = session],
                            EntryWritten(w, session, m.aliasSession \/ m.aliasSessionData))
             ELSE World(m, w.sm)

\* clearData
clearData(w) ==
    LET m == [w.m EXCEPT !.checkoutData = {}, !.checkoutStatus = Null, !.aliasData = FALSE]
    IN  IF m.currentSession = Null THEN World(m, w.sm)
        ELSE LET cleared ==
                     WriteCurrentSession(World(m, w.sm),
                                         [m.currentSession EXCEPT !.checkoutData = {}])
             IN  World([cleared.m EXCEPT !.aliasSessionData = cleared.m.aliasSession],
                       cleared.sm)

\* the branches of handleNetworkCall on the extracted checkout id; a change of the id is
\* left to the check that handleCheckoutIdChange starts
CheckoutIdSeen(w, extractedCheckoutId, time) ==
    IF ~Truthy(extractedCheckoutId) THEN w
    ELSE IF ~Truthy(w.m.currentCheckoutId) /\ w.m.currentSession = Null
    THEN createNewSessionWithCheckoutId(
             World([w.m EXCEPT !.currentCheckoutId = extractedCheckoutId], w.sm),
             extractedCheckoutId, time)
    ELSE IF Truthy(w.m.currentCheckoutId) /\ w.m.currentCheckoutId # extractedCheckoutId
    THEN w
    ELSE IF ~Truthy(w.m.currentCheckoutId)
    THEN CheckoutIdAdopted(w, extractedCheckoutId)
    ELSE w

\* handleNetworkCall starts the check of a changed checkout id
StartsCheck(m, extractedCheckoutId) ==
    /\ Truthy(extractedCheckoutId)
    /\ ~(~Truthy(m.currentCheckoutId) /\ m.currentSession = Null)
    /\ Truthy(m.currentCheckoutId)
    /\ m.currentCheckoutId # extractedCheckoutId

\* what handleNetworkCall did with the call: the id it extracted and the session whose
\* list it pushed the call to
HandledCall(callData, extractedCheckoutId, session) ==
    [handled |-> TRUE, url |-> callData.url, extractedCheckoutId |-> extractedCheckoutId,
     appended |-> session # Null,
     sessionCheckoutId |-> IF session = Null THEN Null ELSE session.checkoutId,
     managerLoaded |-> FALSE, hadSession |-> FALSE]

\* handleNetworkCall.  Without a session manager checkForExistingSession returns before its
\* await and the callback runs as soon as the handler is through.
handleNetworkCall(w, callData, time) ==
    LET extractedCheckoutId == monitorExtractCheckoutId(callData)
        check == StartsCheck(w.m, extractedCheckoutId)
        seen == CheckoutIdSeen(w, extractedCheckoutId, time)
        pushed == HandledCall(callData, extractedCheckoutId, seen.m.currentSession)
        updated == updateCheckoutData(seen, callData)
        m == [updated.m EXCEPT
                 !.handledCalls = @ + 1,
                 !.lastCall = [pushed EXCEPT !.managerLoaded = w.m.sessionManager,
                                             !.hadSession = w.m.currentSession # Null],
                 !.lastCarried = IF Truthy(extractedCheckoutId) THEN extractedCheckoutId ELSE @,
                 !.pendingChecks = IF check /\ w.m.sessionManager
                                   THEN Append(@, extractedCheckoutId) ELSE @]
    IN  IF check /\ ~w.m.sessionManager
        THEN CheckoutIdAdopted(World(m, updated.sm), extractedCheckoutId)
        ELSE World(m, updated.sm)

(***************************************************************************)
(* SFCCMonitor: the calls it sees, the buttons of its panel, and the       *)
(* checks of a changed checkout id that complete later                     *)
(***************************************************************************)
MaxMonitorCalls == 3

MaxProgressCalls == 4

MaxMonitorSessions == 2

MonitorCall(url, status, requestBody) ==
    [CapturedCall(url, requestBody, Undefined) EXCEPT !.status = status]

\* calls of two checkouts and a call that names none
SessionCalls ==
    {MonitorCall("/checkouts/" \o CheckoutIdX, 200, Undefined),
     MonitorCall("/checkouts/" \o CheckoutIdY, 200, Undefined),
     MonitorCall("/carts/current/cart-items", 200, Undefined)}

\* calls of the steps of one checkout
ProgressCalls ==
    {MonitorCall("/checkouts/active/addresses", 200, Undefined),
     MonitorCall("/checkouts/active/delivery-methods", 200, Undefined),
     MonitorCall("/carts/current/cart-items", 200, Undefined),
     MonitorCall("/checkouts/active/taxes", 200, Undefined),
     MonitorCall("/checkouts/active", 200,
                 JsonText(Obj("billingAddress" :> Obj("city" :> Str("Paris"))))),
     MonitorCall("/checkouts/active/payments", 400, Undefined),
     MonitorCall("/checkouts/active/payments", 200, Undefined)}

MonitorStep(w) ==
    /\ monitor' = w.m
    /\ sessionManager' = w.sm
    /\ UNCHANGED <<now, heldSession>>
    /\ UNCHANGED <<analyzerVars, correlationVars, identifierVars, parserVars, clientVars>>

Here == World(monitor, sessionManager)

\* an event that is no network call
Settled(w) == World([w.m EXCEPT !.lastCall = NoMonitorCall], w.sm)

\* a button of the panel: the user, not the last call, decides what is current from here on
Idle(w) == World([w.m EXCEPT !.lastCall = NoMonitorCall, !.lastCarried = Null], w.sm)

\* window.SessionManager is found and kept
SessionManagerReady ==
    /\ ~monitor.sessionManager
    /\ MonitorStep(Settled(World([monitor EXCEPT !.sessionManager = TRUE], sessionManager)))

ReceiveCall(callData, limit) ==
    /\ monitor.handledCalls < limit
    /\ sessionManager.issued < MaxMonitorSessions
    /\ MonitorStep(handleNetworkCall(Here, callData, now))

\* the stored sessions have been read: a check of a changed checkout id completes
CheckCompletes(i) ==
    /\ i \in 1..Len(monitor.pendingChecks)
    /\ LET pending == monitor.pendingChecks
           rest == SubSeq(pending, 1, i - 1) \o SubSeq(pending, i + 1, Len(pending))
       IN  MonitorStep(Settled(checkForExistingSession(
                                World([monitor EXCEPT !.pendingChecks = rest],
                                      sessionManager),
                                pending[i])))

ClickEndSession ==
    /\ monitor.currentSession # Null
    /\ MonitorStep(Idle(endCurrentSession(Here, now)))

\* the save button and the auto-save timer
ClickSaveSession ==
    /\ monitor.currentSession # Null
    /\ MonitorStep(Idle(saveCurrentSession(Here)))

ClickCreateSession ==
    /\ monitor.sessionManager
    /\ sessionManager.issued < MaxMonitorSessions
    /\ MonitorStep(Idle(monitorCreateNewSession(Here, now)))

ClickLoadSession(sessionId) ==
    /\ monitor.sessionManager
    /\ MonitorStep(Idle(monitorLoadSession(Here, sessionId)))

ClickDeleteSession(sessionId) ==
    /\ monitor.sessionManager
    /\ MonitorStep(Idle(monitorDeleteSession(Here, sessionId)))

ClickClearAllSessions ==
    /\ monitor.sessionManager
    /\ MonitorStep(Idle(monitorClearAllSessions(Here)))

ClickClearData == MonitorStep(Idle(clearData(Here)))

StoredIds == {sessionManager.sessions[i].id : i \in 1..Len(sessionManager.sessions)}

NextMonitor ==
    \/ SessionManagerReady
    \/ \E callData \in SessionCalls : ReceiveCall(callData, MaxMonitorCalls)
    \/ \E i \in 1..MaxMonitorCalls : CheckCompletes(i)
    \/ ClickEndSession
    \/ ClickSaveSession
    \/ ClickCreateSession
    \/ \E sessionId \in StoredIds : ClickLoadSession(sessionId)
    \/ \E sessionId \in StoredIds : ClickDeleteSession(sessionId)
    \/ ClickClearAllSessions
    \/ ClickClearData

SpecMonitor == Init /\ [][NextMonitor]_vars

NextCheckout ==
    \/ SessionManagerReady
    \/ \E callData \in ProgressCalls : ReceiveCall(callData, MaxProgressCalls)
    \/ ClickClearData

SpecCheckout == Init /\ [][NextCheckout]_vars

-----------------------------------------------------------------------------
(* Claims about the classifier                                             *)

Range(q) == {q[i] : i \in 1..Len(q)}

\* the registered rules the last analyzeCall found matching, by position in the registry
MatchedIndexes == {i \in 1..Len(callTypes) : callTypes[i].name \in Range(enhancedCall.matched)}

HasProp(name) == name \in DOMAIN enhancedCall.props

\* C1: when a priority-10 rule and a priority-30 rule both match the interaction (and no other
\* matched rule has priority 30 or more), the classification is the priority-30 rule's name and
\* stage label, wherever the two rules stand in the registration order.
C1_PriorityCorrectness ==
    enhancedCall.done =>
        \A i, j \in MatchedIndexes :
            ( /\ callTypes[i].priority = 10
              /\ callTypes[j].priority = 30
              /\ \A k \in MatchedIndexes \ {j} : callTypes[k].priority < 30 )
            => /\ HasProp("callType") /\ HasProp("checkoutStage")
               /\ enhancedCall.props["callType"] = Str(callTypes[j].name)
               /\ enhancedCall.props["checkoutStage"] = Str(callTypes[j].stage)

\* C1 witness: a priority-10 rule registered before a priority-30 rule, both matched, and the
\* later one is the classification
C1_Witness ==
    /\ enhancedCall.done
    /\ \E i, j \in MatchedIndexes :
        /\ i < j
        /\ callTypes[i].priority = 10
        /\ callTypes[j].priority = 30
        /\ \A k \in MatchedIndexes \ {j} : callTypes[k].priority < 30
        /\ enhancedCall.props["callType"] = Str(callTypes[j].name)

\* the rule of section 4.2, step 2: (URL and method and payload) or (the rule declares payload
\* predicates and payload and method), payload defaulting to true without predicates
RuleMatchClaimed(callData, rule) ==
    LET declares == Len(rule.payloadMatchers) > 0
        payload == IF declares
                   THEN \E m \in 1..Len(rule.payloadMatchers) :
                            EvalMatcher(callTypes, rule.payloadMatchers[m], callData)
                   ELSE TRUE
        url == \E p \in 1..Len(rule.urlPatterns) :
                   includes(toLowerCase(callData.url), toLowerCase(rule.urlPatterns[p]))
        method == toUpperCase(callData.method) \in Range(rule.methods)
    IN  (url /\ method /\ payload) \/ (declares /\ payload /\ method)

\* C2: a rule is matched by an interaction if and only if (URL match and method match and
\* payload match) or (it declares payload predicates and payload match and method match); so a
\* rule without payload predicates is matched only when one of its URL patterns occurs in the URL.
C2_MatchRule ==
    enhancedCall.done =>
        \A i \in 1..Len(callTypes) :
            (i \in MatchedIndexes) <=> RuleMatchClaimed(enhancedCall.call, callTypes[i])

\* C3: under the default rules the failed payment POST /checkouts/ABC123456789012/payments
\* (status 400, errors in the response) is classified as payment with isSuccessful = false.
C3_FailedPaymentClassified ==
    ( /\ enhancedCall.done
      /\ callTypes = initializeDefaultTypes
      /\ enhancedCall.call = FailedPaymentCall )
    => /\ HasProp("callType") /\ enhancedCall.props["callType"] = Str("payment")
       /\ HasProp("isSuccessful") /\ enhancedCall.props["isSuccessful"] = Bool(FALSE)

MaxOf(S) == CHOOSE x \in S : \A y \in S : y <= x
MinOf(S) == CHOOSE x \in S : \A y \in S : x <= y

TopPriority == MaxOf({callTypes[i].priority : i \in MatchedIndexes})
TopIndexes == {i \in MatchedIndexes : callTypes[i].priority = TopPriority}

\* C10: when several matched rules share the highest priority, the classification is the one of
\* them that stands first in the registry (the Map's insertion order).
C10_TieFirstRegistered ==
    (enhancedCall.done /\ MatchedIndexes # {}) =>
        /\ HasProp("callType")
        /\ enhancedCall.props["callType"] = Str(callTypes[MinOf(TopIndexes)].name)

\* C10 witness: two matched rules share the highest priority
C10_Witness ==
    /\ enhancedCall.done
    /\ MatchedIndexes # {}
    /\ Cardinality(TopIndexes) >= 2
    /\ enhancedCall.props["callType"] = Str(callTypes[MinOf(TopIndexes)].name)

\* the last analyzeCall was handed a call that no registered rule matches
NoRuleMatches ==
    /\ enhancedCall.done
    /\ \A i \in 1..Len(callTypes) :
          ~matchesCallType(callTypes, enhancedCall.call, callTypes[i])

PrimaryMatch == callTypes[MinOf(TopIndexes)]

ExtractorNames(rule) == {rule.extractors[i].name : i \in 1..Len(rule.extractors)}
ValidatorNames(rule) == {rule.validators[i].name : i \in 1..Len(rule.validators)}

\* the extractor gave no value: it threw, or returned null or undefined
GaveNothing(r) == r.threw \/ r.value.t \in {"null", "undefined"}

\* C12: an extractor of the winning rule that throws or returns absent leaves out its own field
\* and nothing else: every other extractor's value and every validator's result is in the
\* classification, which names the winning rule; a validator that throws leaves out its own
\* result and nothing else.
C12_FailuresAreLocal ==
    (enhancedCall.done /\ MatchedIndexes # {}) =>
        LET rule == PrimaryMatch
            call == enhancedCall.call
        IN  /\ HasProp("callType")
            /\ enhancedCall.props["callType"] = Str(rule.name)
            /\ \A i \in 1..Len(rule.extractors) :
                  LET e == rule.extractors[i]
                      r == EvalExtractor(e, call)
                  IN  e.name \notin ValidatorNames(rule) =>
                          IF GaveNothing(r) THEN ~HasProp(e.name)
                          ELSE HasProp(e.name) /\ enhancedCall.props[e.name] = r.value
            /\ \A i \in 1..Len(rule.validators) :
                  LET v == rule.validators[i]
                      r == EvalValidator(v, call)
                  IN  IF r.threw THEN v.name \notin ExtractorNames(rule) => ~HasProp(v.name)
                      ELSE HasProp(v.name) /\ enhancedCall.props[v.name] = r.value

\* C12 witness: the winning rule's first extractor threw, its second returned null, and the
\* classification still has the third extractor's field and the result of the validator that
\* follows the one that threw
C12_Witness ==
    /\ enhancedCall.done
    /\ MatchedIndexes # {}
    /\ LET rule == PrimaryMatch
           call == enhancedCall.call
       IN  /\ Len(rule.extractors) >= 3
           /\ Len(rule.validators) >= 2
           /\ EvalExtractor(rule.extractors[1], call).threw
           /\ EvalExtractor(rule.extractors[2], call).value = Null
           /\ HasProp(rule.extractors[3].name)
           /\ ~HasProp(rule.extractors[1].name)
           /\ ~HasProp(rule.extractors[2].name)
           /\ EvalValidator(rule.validators[1], call).threw
           /\ ~HasProp(rule.validators[1].name)
           /\ HasProp(rule.validators[2].name)
           /\ enhancedCall.props["callType"] = Str(rule.name)

-----------------------------------------------------------------------------
(* Claims about the correlation engines                                    *)

\* the correlations the last correlation returned
Emitted == IF lastCorrelation.done THEN lastCorrelation.correlations ELSE <<>>

\* the pairs the last correlation scored
Scored == IF lastCorrelation.done THEN lastCorrelation.scored ELSE <<>>

RuleNamed(name) == correlationRules[IndexOfName(correlationRules, name)]

\* the time window that applied to a correlation of the last run
ActiveWindow(correlation) ==
    CASE lastCorrelation.engine = "monitor" -> timeWindow
      [] lastCorrelation.engine = "api" -> lastCorrelation.window
      [] lastCorrelation.engine = "rules" -> RuleNamed(correlation.type).timeWindow

\* the threshold of the engine of the last run
ActiveThreshold ==
    IF lastCorrelation.engine = "monitor" THEN confidenceThreshold
    ELSE Frac(3, 10)

ScoringEngine == lastCorrelation.done /\ lastCorrelation.engine \in {"monitor", "rules"}

\* C4: no emitted Correlation pairs a call and a log whose absolute time
\* difference is greater than the time window that applies to it (the
\* engine's window, the rule's window, or the window handed to
\* correlateWithCheckout), whatever the pair would score.
C4_TimeWindowExclusion ==
    \A i \in 1..Len(Emitted) :
        /\ TimeDiff(Emitted[i].networkCall, Emitted[i].salesforceLog)
              <= ActiveWindow(Emitted[i])
        /\ Emitted[i].timeDifference
              = TimeDiff(Emitted[i].networkCall, Emitted[i].salesforceLog)

\* a run of the monitor's engine over a pair outside the window whose score
\* meets the threshold
C4_Witness ==
    /\ lastCorrelation.done
    /\ lastCorrelation.engine = "monitor"
    /\ \E c \in 1..Len(networkCalls), l \in 1..Len(salesforceLogs) :
          /\ TimeDiff(networkCalls[c], salesforceLogs[l]) > timeWindow
          /\ MeetsThreshold(calculateCorrelation(networkCalls[c], salesforceLogs[l]))

InUnitInterval(x) == x.den > 0 /\ 0 <= x.num /\ x.num <= x.den

\* C5: every emitted Correlation has a confidence between 0 and 1
\* inclusive, with any call, any log and any rule configuration; so has
\* every relevance score of calculateRelevanceScore.
C5_ConfidenceBounds ==
    /\ \A i \in 1..Len(Emitted) : InUnitInterval(Emitted[i].confidence)
    /\ lastCorrelation.done =>
          \A c \in 1..Len(networkCalls), l \in 1..Len(salesforceLogs) :
              InUnitInterval(calculateRelevanceScore(networkCalls[c],
                                                     salesforceLogs[l]))

\* an emitted Correlation whose raw score is above its maximum and whose
\* confidence is 1
C5_Witness ==
    /\ lastCorrelation.done
    /\ lastCorrelation.engine = "api"
    /\ \E i \in 1..Len(Emitted) :
          /\ Emitted[i].confidence.num = Emitted[i].confidence.den
          /\ UncappedScore(0).den = Emitted[i].confidence.den

IsEmitted(correlation) == \E j \in 1..Len(Emitted) : Emitted[j] = correlation

\* C6: among the pairs an engine scores, a Correlation is emitted for every
\* pair whose confidence is greater than or equal to the engine's threshold,
\* a confidence equal to the threshold included, and for no other pair.
C6_EmittedIffAtLeastThreshold ==
    ScoringEngine =>
        \A i \in 1..Len(Scored) :
            IsEmitted(Scored[i]) <=> FracGE(Scored[i].confidence, ActiveThreshold)

\* C7: the returned sequence is ordered by confidence descending and,
\* among Correlations of equal confidence, the one with the smaller time
\* difference comes first.
C7_RankedWithTimeTieBreak ==
    ScoringEngine =>
        \A i, j \in 1..Len(Emitted) :
            i < j =>
                \/ FracGT(Emitted[i].confidence, Emitted[j].confidence)
                \/ /\ CompareFrac(Emitted[i].confidence, Emitted[j].confidence) = 0
                   /\ Emitted[i].timeDifference <= Emitted[j].timeDifference

\* the position of a correlation among the scored pairs
ScoredIndex(correlation) == CHOOSE k \in 1..Len(Scored) : Scored[k] = correlation

\* C7 as amended: the returned sequence is ordered by confidence
\* descending and Correlations of equal confidence keep the order in which
\* the engine scored them.
C7_RankedByConfidenceStable ==
    ScoringEngine =>
        \A i, j \in 1..Len(Emitted) :
            i < j =>
                /\ \E k \in 1..Len(Scored) : Scored[k] = Emitted[i]
                /\ \E k \in 1..Len(Scored) : Scored[k] = Emitted[j]
                /\ \/ FracGT(Emitted[i].confidence, Emitted[j].confidence)
                   \/ /\ CompareFrac(Emitted[i].confidence, Emitted[j].confidence) = 0
                      /\ ScoredIndex(Emitted[i]) < ScoredIndex(Emitted[j])

\* two Correlations of equal confidence and one of a smaller confidence are
\* returned, the first of the equal ones with the larger time difference
C7_Witness ==
    /\ ScoringEngine
    /\ \E i, j, k \in 1..Len(Emitted) :
          /\ i < j
          /\ CompareFrac(Emitted[i].confidence, Emitted[j].confidence) = 0
          /\ Emitted[i].timeDifference > Emitted[j].timeDifference
          /\ FracGT(Emitted[j].confidence, Emitted[k].confidence)

\* the second scored pair is the first with the call's checkout id added to
\* the raw content of its log
AddsIdentifier(first, second) ==
    /\ first.networkCall = second.networkCall
    /\ first.type = second.type
    /\ first.networkCall.checkoutId.t = "str"
    /\ second.salesforceLog
          = WithIdentifier(first.salesforceLog, first.networkCall.checkoutId.v)

\* C8: for a call and two logs that are identical except that the raw
\* content of one additionally contains the call's checkout id verbatim,
\* the confidence computed for the pair with the id is greater than or
\* equal to the confidence computed for the pair without it.
C8_IdentifierMonotonicity ==
    ScoringEngine =>
        \A i, j \in 1..Len(Scored) :
            AddsIdentifier(Scored[i], Scored[j]) =>
                FracGE(Scored[j].confidence, Scored[i].confidence)

\* the monitor's engine scored both logs and the id raised the confidence
C8_Witness ==
    /\ lastCorrelation.done
    /\ lastCorrelation.engine = "monitor"
    /\ \E i, j \in 1..Len(Scored) :
          /\ AddsIdentifier(Scored[i], Scored[j])
          /\ FracGT(Scored[j].confidence, Scored[i].confidence)

\* C9: the call POST /checkouts/ABC123456789012/payments with status 400
\* and the response error "Invalid payment method", with a log whose raw
\* content includes "Invalid payment method" and that starts 5 seconds
\* later, yields an emitted Correlation of type "error" whose confidence is
\* above the engine's default threshold.
C9_FailedPaymentCorrelatesAsError ==
    (/\ ScoringEngine
     /\ correlationRules = initializeDefaultRules
     /\ networkCalls = <<CallTable[1]>>
     /\ salesforceLogs = <<LogTable[4]>>)
        => \E i \in 1..Len(Emitted) :
              /\ Emitted[i].type = "error"
              /\ FracGT(Emitted[i].confidence, ActiveThreshold)

-----------------------------------------------------------------------------
(* Claims about the registry                                               *)

\* the step registers the configuration under the name
Registers(name, config) == AddCallType(name, config)

-----------------------------------------------------------------------------
(* Claims about the checkout id extractors                                 *)

IsNull(x) == x.t = "null"

\* the call with nothing but its URL, without its request body, without its response
UrlOnly(callData) == [callData EXCEPT !.requestBody = Undefined, !.response = Undefined]
WithoutRequest(callData) == [callData EXCEPT !.requestBody = Undefined]
WithoutResponse(callData) == [callData EXCEPT !.response = Undefined]

\* what the extractor of the last extraction gets from the URL alone, from the response once the
\* URL gives nothing, and from the request once both give nothing
FromUrl == ExtractCheckoutIdBy(extraction.extractor, UrlOnly(extraction.call))
FromUrlOrResponse == ExtractCheckoutIdBy(extraction.extractor, WithoutRequest(extraction.call))
FromUrlOrRequest == ExtractCheckoutIdBy(extraction.extractor, WithoutResponse(extraction.call))

\* C13: the extractor returns the URL's identifier whenever the URL yields one, otherwise the
\* response body's whenever it yields one, otherwise the request body's, whatever the sources of
\* lower rank contain.
C13_UrlThenResponseThenRequest ==
    extraction.done =>
        extraction.checkoutId =
            IF ~IsNull(FromUrl) THEN FromUrl
            ELSE IF ~IsNull(FromUrlOrResponse) THEN FromUrlOrResponse
            ELSE FromUrlOrRequest

\* C13 witness: the URL gives nothing, the response and the request each give an identifier of
\* their own, and the response's is returned
C13_Witness ==
    /\ extraction.done
    /\ IsNull(FromUrl)
    /\ ~IsNull(FromUrlOrResponse)
    /\ ~IsNull(FromUrlOrRequest)
    /\ FromUrlOrResponse # FromUrlOrRequest
    /\ extraction.checkoutId = FromUrlOrResponse

\* the values a body gives under the name checkoutId: the field of the parsed body, the field
\* of its data object, or the text that follows the key checkoutId in a body that is not JSON
NamedCheckoutIds(body) ==
    LET parsed == ParsedOrKept(body)
    IN  {Get(parsed, "checkoutId"), Get(Get(parsed, "data"), "checkoutId")}
            \cup (IF body.t = "str" /\ MatchCheckoutIdText(body.v) # ""
                  THEN {Str(MatchCheckoutIdText(body.v))} ELSE {})

\* C14: an identifier that does not come from the URL is the value of a field named checkoutId
\* of the response or of the request body, never the value of an id-like field such as id.
C14_OnlyNamedField ==
    (extraction.done /\ IsNull(FromUrl) /\ ~IsNull(extraction.checkoutId)) =>
        extraction.checkoutId \in
            NamedCheckoutIds(extraction.call.response)
                \cup NamedCheckoutIds(extraction.call.requestBody)

\* the path segments of the URL that follow a marker "checkouts/" and are made of 15 to 18
\* alphanumeric characters
IdentifierSegments(url) ==
    LET m == "checkouts/"
        after(i) == i + Len(m)
        segLen(i) == RunLength(url, after(i), {"/", "?"}, FALSE)
        markers == {i \in 1..Len(url) :
                       /\ after(i) - 1 <= Len(url)
                       /\ SubSeq(url, i, after(i) - 1) = m}
    IN  {SubSeq(url, after(i), after(i) + segLen(i) - 1) :
            i \in {k \in markers :
                      /\ segLen(k) >= MinIdLen
                      /\ segLen(k) <= MaxIdLen
                      /\ RunLength(url, after(k), AlphaNumeric, TRUE) = segLen(k)}}

\* C15: the identifier taken from the URL is a 15-18 character alphanumeric path segment that
\* follows "checkouts/"; no other segment is ever returned, and such a segment is returned
\* wherever it stands in the path.
C15_UrlIdentifierSegment ==
    extraction.done =>
        LET segments == IdentifierSegments(extraction.call.url)
        IN  /\ ~IsNull(FromUrl) => (FromUrl.t = "str" /\ FromUrl.v \in segments)
            /\ segments # {} => ~IsNull(FromUrl)

-----------------------------------------------------------------------------
(* Claims about the factors of a score                                     *)

\* the decay horizon the default profile is described with: two minutes
DecayHorizon == 2 * 60 * 1000

\* the time factor of a scored pair, in points, and its maximum
TimeFactor(correlation) ==
    IF lastCorrelation.engine = "monitor" THEN correlation.factors.time
    ELSE correlation.factors.time_proximity

MaxTimeFactor == IF lastCorrelation.engine = "monitor" THEN Frac(25, 1) ELSE Frac(10, 1)

\* the error factor of a scored pair, in points
ErrorFactor(correlation) ==
    IF lastCorrelation.engine = "monitor" THEN correlation.factors.error
    ELSE correlation.factors.error_correlation

\* C17: the time factor is at most its maximum, never grows with the time gap, and is zero for
\* every gap beyond the decay horizon of two minutes.
C17_TimeFactorDecaysToZero ==
    ScoringEngine =>
        \A k \in 1..Len(Scored) :
            /\ FracGE(MaxTimeFactor, TimeFactor(Scored[k]))
            /\ FracGE(TimeFactor(Scored[k]), Frac(0, 1))
            /\ \A j \in 1..Len(Scored) :
                  Scored[j].timeDifference >= Scored[k].timeDifference
                  => FracGE(TimeFactor(Scored[k]), TimeFactor(Scored[j]))
            /\ Scored[k].timeDifference > DecayHorizon
                  => CompareFrac(TimeFactor(Scored[k]), Frac(0, 1)) = 0

\* C18: a scored pair whose call has a status of 400 or more and whose log has parsed errors
\* has a positive error factor, whatever the response of the call holds.
C18_ErrorBonusOnFailure ==
    ScoringEngine =>
        \A k \in 1..Len(Scored) :
            ( /\ Scored[k].networkCall.status >= 400
              /\ NonEmptyArray(Get(Scored[k].salesforceLog.parsed, "errors")) )
            => ErrorFactor(Scored[k]) > 0

-----------------------------------------------------------------------------
(* Claims about the log parsers                                            *)

\* the last operation parsed a body that is not empty
ParsedSomething == parsedLog.done /\ parsedLog.parsed.t = "obj"

\* the lines of the parsed body that carry a reference apex://<name>/ the parser reads
ApexLines ==
    SelectSeq(split(parsedLog.body, "\n"),
              LAMBDA line : includes(line, "[EXTERNAL]|apex://") /\ apexMatch(line) # "")

\* C19: when several lines carry a reference apex://<name>/, the parsed class name is the name
\* of the first of them.
C19_FirstApexClassWins ==
    (ParsedSomething /\ Len(ApexLines) > 0) =>
        Get(parsedLog.parsed, "apexClass") = Str(apexMatch(ApexLines[1]))

\* C19, as the code has it: the parsed class name is the name of the last line that carries a
\* reference; every later occurrence overwrites the earlier one.
C19_LastApexClassWins ==
    (ParsedSomething /\ Len(ApexLines) > 0) =>
        Get(parsedLog.parsed, "apexClass") = Str(apexMatch(ApexLines[Len(ApexLines)]))

\* C19 witness: two lines carry different names and the parsed class name is the second
C19_Witness ==
    /\ ParsedSomething
    /\ Len(ApexLines) >= 2
    /\ apexMatch(ApexLines[1]) # apexMatch(ApexLines[Len(ApexLines)])
    /\ Get(parsedLog.parsed, "apexClass") = Str(apexMatch(ApexLines[Len(ApexLines)]))

Keywords == <<"checkout", "payment", "cart">>

\* the event sequence of a keyword in the parsed result
EventsOf(keyword) == Get(parsedLog.parsed, keyword \o "Events").v

\* the lines of the parsed body that contain the keyword in any letter case
KeywordLines(keyword) ==
    SelectSeq(split(parsedLog.body, "\n"),
              LAMBDA line : includes(toLowerCase(line), keyword))

\* C20: the checkout, payment and cart event sequences hold, in the order of the lines, exactly
\* the lines that contain the keyword in any letter case.
C20_KeywordEventsAnyCase ==
    ParsedSomething =>
        \A k \in 1..Len(Keywords) :
            LET events == EventsOf(Keywords[k])
                lines == KeywordLines(Keywords[k])
            IN  /\ Len(events) = Len(lines)
                /\ \A i \in 1..Len(events) :
                      /\ Get(events[i], "type") = Str(Keywords[k])
                      /\ Get(events[i], "event") \in {Str(lines[i]), Str(trim(lines[i]))}


DiagnosticFields ==
    {"errors", "warnings", "checkoutEvents", "apiCalls", "paymentEvents", "cartEvents",
     "webserviceCalls", "apexClass", "userInfo", "performance"}

\* the lines on which a regular expression the parser tries finds nothing
MalformedLines ==
    SelectSeq(split(parsedLog.body, "\n"),
              LAMBDA line : \/ includes(line, "[EXTERNAL]|apex://") /\ apexMatch(line) = ""
                            \/ includes(line, "|USER_INFO|") /\ userMatch(line) = ""
                            \/ includes(line, "Number of SOQL queries:")
                                   /\ digitsMatch(line) = "")

\* C21: parsing an empty content gives the absent value; parsing any other content, malformed
\* lines included, raises nothing and gives a parsed diagnostic with all its fields.
C21_ParseNeverRaises ==
    parsedLog.done =>
        /\ ~parsedLog.raised
        /\ parsedLog.body = "" => parsedLog.parsed = Null
        /\ parsedLog.body # "" =>
               /\ parsedLog.parsed.t = "obj"
               /\ DiagnosticFields \subseteq DOMAIN parsedLog.parsed.v

\* C21 witness: a body with a malformed line has been parsed into a diagnostic
C21_Witness ==
    /\ ParsedSomething
    /\ Len(MalformedLines) > 0
    /\ ~parsedLog.raised

-----------------------------------------------------------------------------
(* Claims about the session manager                                        *)

StoredSessions == sessionManager.sessions

\* the stored sessions of a checkout id that have no end time
ActiveWith(checkoutId) ==
    {i \in 1..Len(StoredSessions) :
        /\ StoredSessions[i].checkoutId = checkoutId
        /\ ~Truthy(StoredSessions[i].endTime)}

\* C26: createNewSession called with a checkout id that an active stored session has adds no
\* session, makes an active session of that checkout id the current one and returns it.
C26_ActiveSessionReused ==
    [][\A sessionData \in SessionDataInputs :
          (/\ CreateNewSession(sessionData)
           /\ Truthy(sessionData.checkoutId)
           /\ ActiveWith(sessionData.checkoutId) # {})
          => /\ sessionManager'.sessions = sessionManager.sessions
             /\ \E i \in ActiveWith(sessionData.checkoutId) :
                   /\ sessionManager'.currentSessionId = StoredSessions[i].id
                   /\ heldSession' = StoredSessions[i]]_vars

\* C27: the number of stored sessions is at most maxSessions after every operation.
C27_AtMostMaxSessions == Len(StoredSessions) <= maxSessions

\* C28: currentSessionId is null or the id of a stored session.
C28_CurrentSessionStored ==
    \/ sessionManager.currentSessionId = Null
    \/ IndexOfId(StoredSessions, sessionManager.currentSessionId) # 0

-----------------------------------------------------------------------------
(* Claims about the Salesforce clients                                     *)

ConnectReturned == client.lastReturn.returned /\ client.lastReturn.op = "connect"

\* C23: when connect(instanceUrl, sessionId) has returned, baseUrl is instanceUrl without its
\* trailing slash, whether the connection succeeded or failed.
C23_BaseUrlNormalized ==
    ConnectReturned => client.baseUrl = Str(NormalizedUrl(client.lastReturn.instanceUrl))

SyncReturned == client.lastReturn.returned /\ client.lastReturn.op = "syncLogs"

\* C29: at most one syncLogs run is in progress; a call that arrives during a run returns the
\* failure "Sync already in progress" and starts nothing; when no run is in progress
\* syncInProgress is false.
C29_OneSyncAtATime ==
    /\ client.syncRuns <= 1
    /\ client.syncRuns = 0 => ~client.syncInProgress
    /\ (SyncReturned /\ client.lastReturn.duringRun) =>
           /\ ~client.lastReturn.success
           /\ client.lastReturn.message = "Sync already in progress"
           /\ client.syncRuns = 1

\* C29 witness: a call arrived during a run and was turned away
C29_Witness ==
    /\ SyncReturned
    /\ client.lastReturn.duringRun
    /\ client.lastReturn.message = "Sync already in progress"
    /\ client.syncRuns = 1

-----------------------------------------------------------------------------
(* Claims about the monitor                                                *)

LastCall == monitor.lastCall

\* C22: when the monitor has handled a call with a checkout id while it had no current session
\* and the session manager was there, a session of that checkout id is the current session.
C22_SessionStartsOnCheckoutId ==
    (/\ LastCall.handled
     /\ Truthy(LastCall.extractedCheckoutId)
     /\ LastCall.managerLoaded
     /\ ~LastCall.hadSession)
    => /\ monitor.currentSession # Null
       /\ monitor.currentSession.checkoutId = LastCall.extractedCheckoutId

\* C24: a call with checkout id X is never pushed to the list of a session whose checkout id
\* is another id Y.
C24_CallJoinsOwnSession ==
    (/\ LastCall.handled
     /\ Truthy(LastCall.extractedCheckoutId)
     /\ LastCall.appended
     /\ Truthy(LastCall.sessionCheckoutId))
    => LastCall.sessionCheckoutId = LastCall.extractedCheckoutId

\* C25: when no check of a changed checkout id is pending, currentCheckoutId is the checkout
\* id of the last call handled that had one, in whatever order the calls arrived and the
\* checks completed.
C25_LatestCheckoutIdWins ==
    (Truthy(monitor.lastCarried) /\ monitor.pendingChecks = <<>>)
    => monitor.currentCheckoutId = monitor.lastCarried

RequiredKeys == {Requirements[i].key : i \in {j \in 1..Len(Requirements) : Requirements[j].required}}

\* C30: checkoutStatus is "Ready" only when every required requirement is marked in
\* checkoutData.
C30_ReadyMeansRequiredDone ==
    monitor.checkoutStatus = Str("Ready") => RequiredKeys \subseteq monitor.checkoutData

=============================================================================
